---- MODULE Spec2Model ----
(***************************************************************************)
(* Model of the PWDC single-buffer codec (src/lib/codec/spectral-compress) *)
(* and of the delta-spectral frame-sequence codec                          *)
(* (src/lib/codec/delta-spectral).  Byte buffers are sequences of numbers  *)
(* in 0..255; containers are modelled byte for byte, little-endian.        *)
(* Sequences are 1-based: the byte at JavaScript offset i is s[i + 1].     *)
(***************************************************************************)
EXTENDS Integers, Sequences, FiniteSets, TLC

VARIABLES
    pc,             \* position of the driver that calls the codec
    data,           \* input buffer of compress
    container,      \* container handed to decompress
    restored,       \* result of decompress: a buffer or a thrown error
    prev,           \* computeDelta / applyDelta: reference buffer
    cur,            \* computeDelta / applyDelta: current buffer
    delta,          \* DeltaFrame returned by computeDelta
    applied,        \* buffer returned by applyDelta
    frames,         \* compressFrameSequence: input frame list
    kfi,            \* compressFrameSequence: keyframeInterval
    eI,             \* compressFrameSequence: loop index i
    referenceFrame, \* compressFrameSequence: referenceFrame
    chunks,         \* compressFrameSequence: chunks pushed so far
    stream,         \* frame-sequence container handed to the decoder
    dI,             \* decompressFrameSequence: loop index i
    dOffset,        \* decompressFrameSequence: offset
    dRef,           \* decompressFrameSequence: referenceFrame
    dFrames,        \* decompressFrameSequence: frames pushed so far
    dError,         \* decompressFrameSequence: error thrown, or "none"
    again,          \* container returned by a second run of compress
    calls,          \* frame-sequence calls in progress: locals of each call
    refSlots,       \* the referenceFrame binding of each call
    heap,           \* the ArrayBuffers allocated so far, by identity
    locals          \* typed arrays bound to the names of the running call

codecVars == <<data, container, restored>>
deltaVars == <<prev, cur, delta, applied>>
encVars   == <<frames, kfi, eI, referenceFrame, chunks>>
decVars   == <<dI, dOffset, dRef, dFrames, dError>>
seqVars   == <<frames, kfi, eI, referenceFrame, chunks, stream,
               dI, dOffset, dRef, dFrames, dError>>
parVars   == <<again, calls, refSlots>>
heapVars  == <<heap, locals>>
vars == <<pc, data, container, restored, prev, cur, delta, applied,
          frames, kfi, eI, referenceFrame, chunks, stream,
          dI, dOffset, dRef, dFrames, dError, again, calls, refSlots,
          heap, locals>>

----------------------------------------------------------------------------
(* Bounds of the model *)

MaxLen == 5
MaxDeltaLen == 3
MaxFrames == 3
MaxFrameLen == 3
MaxInterval == 3
MaxUnits == 3
PackRepeat == 3
RunStretch == 48
MaxRunSeedLen == 2
MaxOriginal == 3
MaxRuns == 2
MaxRunLen == 2
MaxPermuted == 5
MaxTwiceLen == 4
MaxMode1Len == 3
MaxParFrames == 2
MaxMode0Len == 3
MaxHeapLen == 2

\* number of values a Uint8Array element can take
ByteCount == 256

\* byte values the bounded inputs are drawn from
ByteVals == {0, 65, 66, 67, 255}
FrameVals == {0, 7}

----------------------------------------------------------------------------
(* Arithmetic helpers standing for JavaScript number / typed-array rules *)

Undefined == -1

Max(a, b) == IF a >= b THEN a ELSE b
Min(a, b) == IF a <= b THEN a ELSE b

RECURSIVE Pow2(_)
Pow2(n) == IF n <= 0 THEN 1 ELSE 2 * Pow2(n - 1)

CeilDiv(a, b) == (a + b - 1) \div b

\* Math.ceil(Math.log2(n)) for n >= 1
RECURSIVE CeilLog2From(_, _)
CeilLog2From(n, e) == IF Pow2(e) >= n THEN e ELSE CeilLog2From(n, e + 1)
CeilLog2(n) == CeilLog2From(n, 0)

\* a | b on non-negative integers
RECURSIVE BitOr(_, _)
BitOr(a, b) ==
    IF a = 0 THEN b
    ELSE IF b = 0 THEN a
    ELSE (IF (a % 2 = 1) \/ (b % 2 = 1) THEN 1 ELSE 0)
         + 2 * BitOr(a \div 2, b \div 2)

\* ToInt32 of a typed-array read used in a shift: undefined becomes 0
ToInt(v) == IF v = Undefined THEN 0 ELSE v
\* value stored into a Uint8Array element: undefined becomes 0
ToUint8(v) == IF v = Undefined THEN 0 ELSE v % 256

\* s[i] on a typed array or array: undefined when i is out of range
At(s, i) == IF i >= 0 /\ i < Len(s) THEN s[i + 1] ELSE Undefined

\* s[i] = v on a typed array: writes out of range are ignored
SetAt(s, i, v) ==
    IF i >= 0 /\ i < Len(s)
    THEN SubSeq(s, 1, i) \o <<v>> \o SubSeq(s, i + 2, Len(s))
    ELSE s

\* s.slice(from, to): both ends clamped to the length
Slice(s, from, to) ==
    LET f == Min(Max(from, 0), Len(s))
        t == Min(Max(to, 0), Len(s))
    IN  IF t <= f THEN <<>> ELSE SubSeq(s, f + 1, t)

\* new Uint8Array(n): n zero bytes
Zeros(n) == <<>> \o [i \in 1..n |-> 0]

\* DataView.setUint16 / setUint32 with littleEndian = true
U16LE(n) == <<n % 256, (n \div 256) % 256>>
U32LE(n) == <<n % 256, (n \div 256) % 256, (n \div 65536) % 256,
              (n \div 16777216) % 256>>

\* DataView.getUint16 / getUint32 with littleEndian = true; the caller
\* checks CanRead first, since an out-of-range read throws RangeError
CanRead(s, off, n) == off >= 0 /\ off + n <= Len(s)
GetU16(s, off) == s[off + 1] + 256 * s[off + 2]
GetU32(s, off) == s[off + 1] + 256 * s[off + 2] + 65536 * s[off + 3]
                  + 16777216 * s[off + 4]

\* result of a call that may throw
Ok(b) == [error |-> "none", buf |-> b]
Throw(e) == [error |-> e, buf |-> <<>>]
NotRun == [error |-> "notrun", buf |-> <<>>]

----------------------------------------------------------------------------
(* photonic-transform: byteToWavelength, scaled by 255 to stay integral *)

byteToWavelength(byte) == 380 * 255 + byte * 400

----------------------------------------------------------------------------
(* spectral-compress.ts *)

MAGIC == <<80, 87, 68, 67>>
\* VERSION of a later format
VersionNext == 3

VERSION == 2

\* Loops over an index range are evaluated by halving the range (first the
\* lower half, then the upper half on its result): the iterations run in the
\* code's order, and the evaluation depth stays logarithmic in the length.
\* Done(x) holds of every value; testing it evaluates the lower half before
\* the upper half starts.
Done(x) == x = x

\* histogram.set(data[i], ...): a new key is appended to the Map's key order
HistogramSet(keys, b) ==
    IF \E j \in 1..Len(keys) : keys[j] = b THEN keys ELSE Append(keys, b)

\* keys of the histogram Map after the loop over data[lo..hi] (1-based),
\* in first-occurrence (insertion) order
RECURSIVE HistogramKeys(_, _, _, _)
HistogramKeys(d, lo, hi, keys) ==
    IF lo > hi THEN keys
    ELSE IF lo = hi THEN HistogramSet(keys, d[lo])
    ELSE LET mid == (lo + hi) \div 2
             lower == HistogramKeys(d, lo, mid, keys)
         IN  IF Done(lower) THEN HistogramKeys(d, mid + 1, hi, lower)
             ELSE lower

\* WavelengthCompare with its operands exchanged: a descending order
WavelengthCompareReversed(a, b) == byteToWavelength(b) - byteToWavelength(a)

\* the comparator (a, b) => byteToWavelength(a) - byteToWavelength(b)
WavelengthCompare(a, b) == byteToWavelength(a) - byteToWavelength(b)

\* insert b into a list already sorted by the comparator, after every
\* element that does not compare greater than b
InsertByWavelength(sorted, b) ==
    LET after == {j \in 1..Len(sorted) : WavelengthCompare(b, sorted[j]) < 0}
        p == IF after = {} THEN Len(sorted)
             ELSE (CHOOSE j \in after : \A k \in after : j <= k) - 1
    IN  SubSeq(sorted, 1, p) \o <<b>> \o SubSeq(sorted, p + 1, Len(sorted))

\* SortByWavelength without the sort: the keys stay in the Map's order
SortByWavelengthNone(keys, lo, hi, sorted) == sorted \o SubSeq(keys, lo, hi)

\* Array.from(histogram.keys()).sort(comparator), over keys[lo..hi]
RECURSIVE SortByWavelength(_, _, _, _)
SortByWavelength(keys, lo, hi, sorted) ==
    IF lo > hi THEN sorted
    ELSE IF lo = hi THEN InsertByWavelength(sorted, keys[lo])
    ELSE LET mid == (lo + hi) \div 2
             lower == SortByWavelength(keys, lo, mid, sorted)
         IN  IF Done(lower) THEN SortByWavelength(keys, mid + 1, hi, lower)
             ELSE lower

UniqueBytesOf(d) ==
    LET keys == HistogramKeys(d, 1, Len(d), <<>>)
    IN  SortByWavelength(keys, 1, Len(keys), <<>>)

\* byteToIndex.get(b): 0-based position of b in uniqueBytes
ByteToIndex(uniqueBytes, b) ==
    CHOOSE i \in 0..(Len(uniqueBytes) - 1) : uniqueBytes[i + 1] = b

\* BitsPerIndexOf rounding the logarithm down instead of up
BitsPerIndexOfFloor(n) == Max(1, CeilLog2((IF n = 0 THEN 1 ELSE n) + 1) - 1)

\* Math.max(1, Math.ceil(Math.log2(n || 1)))
BitsPerIndexOf(n) == Max(1, CeilLog2(IF n = 0 THEN 1 ELSE n))

\* RunBytesPerIndexOf taking a second byte as soon as all 8 bits are used
RunBytesPerIndexWide(bitsPerIndex) == CeilDiv(bitsPerIndex + 1, 8)

\* Math.ceil(bitsPerIndex / 8)
RunBytesPerIndexOf(bitsPerIndex) == CeilDiv(bitsPerIndex, 8)

\* PackStep starting every symbol on a byte boundary
PackStepByteAligned(d, uniqueBytes, bitsPerIndex, packedStart, i, output) ==
    LET idx        == ByteToIndex(uniqueBytes, d[i + 1])
        byteOffset == packedStart + i
    IN  SetAt(output, byteOffset,
              BitOr(ToInt(At(output, byteOffset)), idx % 256))

\* one iteration of the bit-packing loop of encodeMode0 (i is 0-based)
PackStep(d, uniqueBytes, bitsPerIndex, packedStart, i, output) ==
    LET idx        == ByteToIndex(uniqueBytes, d[i + 1])
        bitPos     == i * bitsPerIndex
        byteOffset == packedStart + (bitPos \div 8)
        bitOffset  == bitPos % 8
        o1 == SetAt(output, byteOffset,
                    BitOr(ToInt(At(output, byteOffset)),
                          (idx * Pow2(bitOffset)) % 256))
        o2 == IF bitOffset + bitsPerIndex > 8
              THEN SetAt(o1, byteOffset + 1,
                         BitOr(ToInt(At(o1, byteOffset + 1)),
                               (idx \div Pow2(8 - bitOffset)) % 256))
              ELSE o1
    IN  IF bitOffset + bitsPerIndex > 16
        THEN SetAt(o2, byteOffset + 2,
                   BitOr(ToInt(At(o2, byteOffset + 2)),
                         (idx \div Pow2(16 - bitOffset)) % 256))
        ELSE o2

\* the bit-packing loop of encodeMode0 over input positions lo..hi (0-based)
RECURSIVE PackLoop(_, _, _, _, _, _, _)
PackLoop(d, uniqueBytes, bitsPerIndex, packedStart, lo, hi, output) ==
    IF lo > hi THEN output
    ELSE IF lo = hi
    THEN PackStep(d, uniqueBytes, bitsPerIndex, packedStart, lo, output)
    ELSE LET mid == (lo + hi) \div 2
             lower == PackLoop(d, uniqueBytes, bitsPerIndex, packedStart,
                               lo, mid, output)
         IN  IF Done(lower)
             THEN PackLoop(d, uniqueBytes, bitsPerIndex, packedStart,
                           mid + 1, hi, lower)
             ELSE lower

encodeMode0(d, uniqueBytes, bitsPerIndex) ==
    LET packedDataSize == CeilDiv(Len(d) * bitsPerIndex, 8)
        header == MAGIC \o <<VERSION, 0>> \o U32LE(Len(d))
                  \o U16LE(Len(uniqueBytes))
        output == header \o uniqueBytes \o Zeros(packedDataSize)
    IN  PackLoop(d, uniqueBytes, bitsPerIndex, 12 + Len(uniqueBytes),
                 0, Len(d) - 1, output)

RunCap == 65535

\* RunStep without the test runCount < 65535
RunStepUncapped(d, uniqueBytes, i, st) ==
    LET idx == ByteToIndex(uniqueBytes, d[i + 1])
    IN  IF idx = st.currentIndex
        THEN [st EXCEPT !.runCount = st.runCount + 1]
        ELSE [currentIndex |-> idx, runCount |-> 1,
              rleRuns |-> Append(st.rleRuns, [index |-> st.currentIndex,
                                              count |-> st.runCount])]

\* one iteration of the run-building loop of encodeMode1 (i is 0-based)
RunStep(d, uniqueBytes, i, st) ==
    LET idx == ByteToIndex(uniqueBytes, d[i + 1])
    IN  IF idx = st.currentIndex /\ st.runCount < RunCap
        THEN [st EXCEPT !.runCount = st.runCount + 1]
        ELSE [currentIndex |-> idx, runCount |-> 1,
              rleRuns |-> Append(st.rleRuns, [index |-> st.currentIndex,
                                              count |-> st.runCount])]

\* the run-building loop of encodeMode1 over input positions lo..hi
RECURSIVE BuildRuns(_, _, _, _, _)
BuildRuns(d, uniqueBytes, lo, hi, st) ==
    IF lo > hi THEN st
    ELSE IF lo = hi THEN RunStep(d, uniqueBytes, lo, st)
    ELSE LET mid == (lo + hi) \div 2
             lower == BuildRuns(d, uniqueBytes, lo, mid, st)
         IN  IF Done(lower) THEN BuildRuns(d, uniqueBytes, mid + 1, hi, lower)
             ELSE lower

\* rleRuns of encodeMode1, with the push that follows the loop
RleRunsOf(d, uniqueBytes) ==
    LET st == BuildRuns(d, uniqueBytes, 1, Len(d) - 1,
                        [currentIndex |-> ByteToIndex(uniqueBytes, d[1]),
                         runCount |-> 1, rleRuns |-> <<>>])
    IN  Append(st.rleRuns, [index |-> st.currentIndex, count |-> st.runCount])

\* bytes written for one run record
RunRecord(run, runBytesPerIndex) ==
    (IF runBytesPerIndex = 1 THEN <<run.index % 256>> ELSE U16LE(run.index))
    \o U16LE(run.count)

\* bytes written by the loop over rleRuns[lo..hi] (1-based)
RECURSIVE WriteRuns(_, _, _, _)
WriteRuns(rleRuns, runBytesPerIndex, lo, hi) ==
    IF lo > hi THEN <<>>
    ELSE IF lo = hi THEN RunRecord(rleRuns[lo], runBytesPerIndex)
    ELSE LET mid == (lo + hi) \div 2
         IN  WriteRuns(rleRuns, runBytesPerIndex, lo, mid)
             \o WriteRuns(rleRuns, runBytesPerIndex, mid + 1, hi)

encodeMode1(d, uniqueBytes, bitsPerIndex) ==
    LET rleRuns == RleRunsOf(d, uniqueBytes)
        runBytesPerIndex == RunBytesPerIndexOf(bitsPerIndex)
    IN  MAGIC \o <<VERSION, 1>> \o U32LE(Len(d)) \o U16LE(Len(uniqueBytes))
        \o uniqueBytes
        \o U32LE(Len(rleRuns))
        \o WriteRuns(rleRuns, runBytesPerIndex, 1, Len(rleRuns))

encodeRaw(d) == MAGIC \o <<VERSION, 255>> \o U32LE(Len(d)) \o d

\* container returned for the empty buffer
EmptyContainer == MAGIC \o <<VERSION, 0, 0, 0, 0, 0, 0>>

\* PickBest with the comparison reversed: the larger candidate is kept
PickBestLarger(mode0, mode1) ==
    IF Len(mode0) >= Len(mode1) THEN mode0 ELSE mode1

\* PickBest with < in place of <=: on a tie the run-length candidate is kept
PickBestStrict(mode0, mode1) ==
    IF Len(mode0) < Len(mode1) THEN mode0 ELSE mode1

\* const best = mode0.length <= mode1.length ? mode0 : mode1
PickBest(mode0, mode1) == IF Len(mode0) <= Len(mode1) THEN mode0 ELSE mode1

\* UseRaw with > in place of >=: a candidate of exactly len + 10 is kept
UseRawStrict(best, d) == Len(best) > Len(d) + 10

\* UseRaw comparing the candidate's bytes against the raw size in bits
UseRawInBits(best, d) == Len(best) >= (Len(d) + 10) * 8

\* if (best.length >= data.length + 10) return encodeRaw(data)
UseRaw(best, d) == Len(best) >= Len(d) + 10

compress(d) ==
    IF Len(d) = 0 THEN EmptyContainer
    ELSE
      LET uniqueBytes  == UniqueBytesOf(d)
          bitsPerIndex == BitsPerIndexOf(Len(uniqueBytes))
          mode0 == encodeMode0(d, uniqueBytes, bitsPerIndex)
          mode1 == encodeMode1(d, uniqueBytes, bitsPerIndex)
          best  == PickBest(mode0, mode1)
      IN  IF UseRaw(best, d) THEN encodeRaw(d) ELSE best


\* compress on a histogram Map whose keys() iterates in the given order
compressWithKeys(d, keys) ==
    IF Len(d) = 0 THEN EmptyContainer
    ELSE
      LET uniqueBytes  == SortByWavelength(keys, 1, Len(keys), <<>>)
          bitsPerIndex == BitsPerIndexOf(Len(uniqueBytes))
          mode0 == encodeMode0(d, uniqueBytes, bitsPerIndex)
          mode1 == encodeMode1(d, uniqueBytes, bitsPerIndex)
          best  == PickBest(mode0, mode1)
      IN  IF UseRaw(best, d) THEN encodeRaw(d) ELSE best

\* UnpackStep without the reads of the following bytes: an index that
\* straddles a byte boundary loses its high bits
UnpackStepOneByte(c, packedStart, uniqueBytes, i, output) ==
    LET bitsPerIndex == BitsPerIndexOf(Len(uniqueBytes))
        maskPlus1  == Pow2(bitsPerIndex)
        bitPos     == i * bitsPerIndex
        byteOffset == packedStart + (bitPos \div 8)
        bitOffset  == bitPos % 8
        idx1 == (ToInt(At(c, byteOffset)) \div Pow2(bitOffset)) % maskPlus1
    IN  SetAt(output, i, ToUint8(At(uniqueBytes, idx1)))

\* one iteration of the unpacking loop of decompressMode0 (i is 0-based)
UnpackStep(c, packedStart, uniqueBytes, i, output) ==
    LET bitsPerIndex == BitsPerIndexOf(Len(uniqueBytes))
        maskPlus1  == Pow2(bitsPerIndex)
        bitPos     == i * bitsPerIndex
        byteOffset == packedStart + (bitPos \div 8)
        bitOffset  == bitPos % 8
        idx1 == (ToInt(At(c, byteOffset)) \div Pow2(bitOffset)) % maskPlus1
        idx2 == IF bitOffset + bitsPerIndex > 8 /\ byteOffset + 1 < Len(c)
                THEN BitOr(idx1, (c[byteOffset + 2] * Pow2(8 - bitOffset))
                                 % maskPlus1) % maskPlus1
                ELSE idx1
        idx3 == IF bitOffset + bitsPerIndex > 16 /\ byteOffset + 2 < Len(c)
                THEN BitOr(idx2, (c[byteOffset + 3] * Pow2(16 - bitOffset))
                                 % maskPlus1) % maskPlus1
                ELSE idx2
    IN  SetAt(output, i, ToUint8(At(uniqueBytes, idx3)))

\* the unpacking loop of decompressMode0 over output positions lo..hi
RECURSIVE UnpackLoop(_, _, _, _, _, _)
UnpackLoop(c, packedStart, uniqueBytes, lo, hi, output) ==
    IF lo > hi THEN output
    ELSE IF lo = hi THEN UnpackStep(c, packedStart, uniqueBytes, lo, output)
    ELSE LET mid == (lo + hi) \div 2
             lower == UnpackLoop(c, packedStart, uniqueBytes, lo, mid, output)
         IN  IF Done(lower)
             THEN UnpackLoop(c, packedStart, uniqueBytes, mid + 1, hi, lower)
             ELSE lower

decompressMode0(c, packedStart, originalSize, uniqueBytes) ==
    Ok(UnpackLoop(c, packedStart, uniqueBytes, 0, originalSize - 1,
                  Zeros(originalSize)))

\* FillRun without the test outIdx < originalSize, on a growable array
FillRunUnclamped(output, outIdx, count, originalSize, byteVal) ==
    SubSeq(output, 1, outIdx)
    \o [k \in 1..count |-> ToUint8(byteVal)]
    \o SubSeq(output, outIdx + count + 1, Len(output))

\* for (i = 0; i < count && outIdx < originalSize; i++) output[outIdx++] = v
FillRun(output, outIdx, count, originalSize, byteVal) ==
    LET n == Min(count, Max(originalSize - outIdx, 0))
    IN  SubSeq(output, 1, outIdx)
        \o [k \in 1..n |-> ToUint8(byteVal)]
        \o SubSeq(output, outIdx + n + 1, Len(output))

\* one iteration of the run loop shared by decompressMode1 and decompressV1;
\* st holds offset, output, outIdx and the error thrown so far
ExpandStep(c, runBytesPerIndex, originalSize, uniqueBytes, st) ==
    LET wide     == runBytesPerIndex # 1
        idxBytes == IF wide THEN 2 ELSE 1
    IN  IF wide /\ ~CanRead(c, st.offset, 2)
        THEN [st EXCEPT !.error = "RangeError"]
        ELSE IF ~CanRead(c, st.offset + idxBytes, 2)
        THEN [st EXCEPT !.error = "RangeError"]
        ELSE
          LET index   == IF wide THEN GetU16(c, st.offset)
                         ELSE At(c, st.offset)
              count   == GetU16(c, st.offset + idxBytes)
              byteVal == At(uniqueBytes, index)
              n       == Min(count, Max(originalSize - st.outIdx, 0))
          IN  [error  |-> "none",
               offset |-> st.offset + idxBytes + 2,
               output |-> FillRun(st.output, st.outIdx, count, originalSize,
                                  byteVal),
               outIdx |-> st.outIdx + n]

\* the run loop for r in lo..hi; a throw ends it
RECURSIVE ExpandRuns(_, _, _, _, _, _, _)
ExpandRuns(c, runBytesPerIndex, originalSize, uniqueBytes, lo, hi, st) ==
    IF lo > hi \/ st.error # "none" THEN st
    ELSE IF lo = hi
    THEN ExpandStep(c, runBytesPerIndex, originalSize, uniqueBytes, st)
    ELSE LET mid == (lo + hi) \div 2
             lower == ExpandRuns(c, runBytesPerIndex, originalSize,
                                 uniqueBytes, lo, mid, st)
         IN  IF Done(lower)
             THEN ExpandRuns(c, runBytesPerIndex, originalSize, uniqueBytes,
                             mid + 1, hi, lower)
             ELSE lower

\* numRuns = view.getUint32(offset); the run loop; return output
ReadRuns(c, offset, runBytesPerIndex, originalSize, uniqueBytes) ==
    IF ~CanRead(c, offset, 4) THEN Throw("RangeError")
    ELSE
      LET st == ExpandRuns(c, runBytesPerIndex, originalSize, uniqueBytes,
                           0, GetU32(c, offset) - 1,
                           [error |-> "none", offset |-> offset + 4,
                            output |-> Zeros(originalSize), outIdx |-> 0])
      IN  IF st.error # "none" THEN Throw(st.error) ELSE Ok(st.output)

decompressMode1(c, offset, originalSize, uniqueBytes) ==
    LET bitsPerIndex     == BitsPerIndexOf(Len(uniqueBytes))
        runBytesPerIndex == RunBytesPerIndexOf(bitsPerIndex)
    IN  ReadRuns(c, offset, runBytesPerIndex, originalSize, uniqueBytes)

\* V1CountBytes when the decoder does not skip the stored count
V1CountBytesNone == 0

\* bytes skipped after each table entry of the version 1 layout
V1CountBytes == 4

decompressV1(c) ==
    LET originalSize == GetU32(c, 5)
    IN  IF ~CanRead(c, 5, 4) THEN Throw("RangeError")
        ELSE IF originalSize = 0 THEN Ok(<<>>)
        ELSE IF ~CanRead(c, 9, 2) THEN Throw("RangeError")
        ELSE
          LET uniqueCount  == GetU16(c, 9)
              bitsPerIndex == At(c, 11)
              uniqueBytes  == [i \in 1..uniqueCount |->
                                  At(c, 12 + (i - 1) * (1 + V1CountBytes))]
              offset       == 12 + uniqueCount * (1 + V1CountBytes)
              runBytesPerIndex == RunBytesPerIndexOf(ToInt(bitsPerIndex))
          IN  ReadRuns(c, offset, runBytesPerIndex, originalSize, uniqueBytes)

\* decompress without the early return on originalSize = 0
decompressReadsOn(c) ==
    IF Len(c) < 10 THEN Throw("too short")
    ELSE IF c[1] # 80 \/ c[2] # 87 \/ c[3] # 68 \/ c[4] # 67
         THEN Throw("bad magic")
    ELSE IF c[5] # VERSION /\ c[5] # 1 THEN Throw("unsupported version")
    ELSE IF c[5] = 1 THEN decompressV1(c)
    ELSE
      LET mode         == c[6]
          originalSize == GetU32(c, 6)
      IN  IF mode = 255 THEN Ok(Slice(c, 10, 10 + originalSize))
          ELSE IF ~CanRead(c, 10, 2) THEN Throw("RangeError")
          ELSE
            LET uniqueCount == GetU16(c, 10)
                uniqueBytes == [i \in 1..uniqueCount |-> At(c, 12 + i - 1)]
                offset      == 12 + uniqueCount
            IN  IF mode = 0
                THEN decompressMode0(c, offset, originalSize, uniqueBytes)
                ELSE IF mode = 1
                THEN decompressMode1(c, offset, originalSize, uniqueBytes)
                ELSE Throw("unknown mode")

decompress(c) ==
    IF Len(c) < 10 THEN Throw("too short")
    ELSE IF c[1] # 80 \/ c[2] # 87 \/ c[3] # 68 \/ c[4] # 67
         THEN Throw("bad magic")
    ELSE IF c[5] # VERSION /\ c[5] # 1 THEN Throw("unsupported version")
    ELSE IF c[5] = 1 THEN decompressV1(c)
    ELSE
      LET mode         == c[6]
          originalSize == GetU32(c, 6)
      IN  IF originalSize = 0 THEN Ok(<<>>)
          ELSE IF mode = 255 THEN Ok(Slice(c, 10, 10 + originalSize))
          ELSE IF ~CanRead(c, 10, 2) THEN Throw("RangeError")
          ELSE
            LET uniqueCount == GetU16(c, 10)
                uniqueBytes == [i \in 1..uniqueCount |-> At(c, 12 + i - 1)]
                offset      == 12 + uniqueCount
            IN  IF mode = 0
                THEN decompressMode0(c, offset, originalSize, uniqueBytes)
                ELSE IF mode = 1
                THEN decompressMode1(c, offset, originalSize, uniqueBytes)
                ELSE Throw("unknown mode")


----------------------------------------------------------------------------
(* delta-spectral.ts *)

\* DeltaStep pushing every position it visits, changed or not
DeltaStepEvery(previous, current, always, i, dl) ==
    [positions |-> Append(dl.positions, i),
     values    |-> Append(dl.values, current[i + 1])]

\* one iteration of either loop of computeDelta (i is 0-based): the first
\* loop pushes i when the bytes differ, the second loop pushes every i
DeltaStep(previous, current, always, i, dl) ==
    IF always \/ previous[i + 1] # current[i + 1]
    THEN [positions |-> Append(dl.positions, i),
          values    |-> Append(dl.values, current[i + 1])]
    ELSE dl

RECURSIVE DeltaScan(_, _, _, _, _, _)
DeltaScan(previous, current, always, lo, hi, dl) ==
    IF lo > hi THEN dl
    ELSE IF lo = hi THEN DeltaStep(previous, current, always, lo, dl)
    ELSE LET mid == (lo + hi) \div 2
             lower == DeltaScan(previous, current, always, lo, mid, dl)
         IN  IF Done(lower)
             THEN DeltaScan(previous, current, always, mid + 1, hi, lower)
             ELSE lower

\* computeDelta without the second loop ("Handle size difference")
computeDeltaCommonOnly(previous, current) ==
    LET minLen == Min(Len(previous), Len(current))
    IN  DeltaScan(previous, current, FALSE, 0, minLen - 1,
                  [positions |-> <<>>, values |-> <<>>])

computeDelta(previous, current) ==
    LET minLen == Min(Len(previous), Len(current))
        common == DeltaScan(previous, current, FALSE, 0, minLen - 1,
                            [positions |-> <<>>, values |-> <<>>])
    IN  DeltaScan(previous, current, TRUE, minLen, Len(current) - 1, common)

\* result[delta.positions[i]] = delta.values[i] for i in lo..hi (0-based)
RECURSIVE ApplyLoop(_, _, _, _)
ApplyLoop(dl, lo, hi, result) ==
    IF lo > hi THEN result
    ELSE IF lo = hi
    THEN SetAt(result, dl.positions[lo + 1], ToUint8(At(dl.values, lo)))
    ELSE LET mid == (lo + hi) \div 2
             lower == ApplyLoop(dl, lo, mid, result)
         IN  IF Done(lower) THEN ApplyLoop(dl, mid + 1, hi, lower) ELSE lower

\* CopyPrevious without result.set(..): the new array stays zero
CopyPreviousNone(previous, newLength) == Zeros(newLength)

\* new Uint8Array(newLength) with previous.slice(0, newLength) set at 0
CopyPrevious(previous, newLength) ==
    LET head == Slice(previous, 0, newLength)
    IN  head \o Zeros(newLength - Len(head))

applyDelta(previous, dl, newLength) ==
    ApplyLoop(dl, 0, Len(dl.positions) - 1, CopyPrevious(previous, newLength))

\* bytes of a Uint32Array, little-endian
RECURSIVE PosBytes(_, _, _)
PosBytes(positions, lo, hi) ==
    IF lo > hi THEN <<>>
    ELSE IF lo = hi THEN U32LE(positions[lo])
    ELSE LET mid == (lo + hi) \div 2
         IN  PosBytes(positions, lo, mid) \o PosBytes(positions, mid + 1, hi)

\* new Uint32Array(posBytes.buffer, posBytes.byteOffset, numChanges);
\* the caller checks numChanges * 4 <= posBytes.length (RangeError otherwise)
PositionsOf(posBytes, numChanges) ==
    [k \in 1..numChanges |-> GetU32(posBytes, 4 * (k - 1))]

TagKey == 75
TagDelta == 68

\* the 8-byte sequence header
SeqHeader(frameCount, keyframeInterval) ==
    U32LE(frameCount) \o U32LE(keyframeInterval)

\* chunks pushed for a Key unit: frameHeader, compressed
KeyChunks(frame) ==
    LET compressed == compress(frame)
    IN  << <<TagKey>> \o U32LE(Len(compressed)) \o U32LE(Len(frame)),
           compressed >>

\* chunks pushed for a Delta unit: frameHeader, posBytes, compressedValues
DeltaChunks(dl) ==
    LET compressedValues == compress(dl.values)
        posBytes == PosBytes(dl.positions, 1, Len(dl.positions))
    IN  << <<TagDelta>> \o U32LE(Len(dl.positions)) \o U32LE(Len(posBytes))
             \o U32LE(Len(compressedValues)),
           posBytes, compressedValues >>

\* SceneChange with >= 0.5 in place of > 0.5
SceneChangeAtHalf(changed, frameLength) ==
    IF frameLength = 0 THEN changed > 0 ELSE 2 * changed >= frameLength

\* changeRatio > 0.5, with changeRatio = changed / frameLength; 0 / 0 is
\* NaN, which is not greater than 0.5
SceneChange(changed, frameLength) ==
    IF frameLength = 0 THEN changed > 0 ELSE 2 * changed > frameLength

\* IsKeyframe with only the first frame on the schedule
IsKeyframeFirstOnly(i, keyframeInterval) == i = 0

\* const isKeyframe = i % keyframeInterval === 0
IsKeyframe(i, keyframeInterval) == i % keyframeInterval = 0

\* chunks.reduce / result.set: the chunks concatenated in order
RECURSIVE Concat(_, _, _)
Concat(cs, lo, hi) ==
    IF lo > hi THEN <<>>
    ELSE IF lo = hi THEN cs[lo]
    ELSE LET mid == (lo + hi) \div 2
         IN  Concat(cs, lo, mid) \o Concat(cs, mid + 1, hi)

\* Deref that takes a missing reference frame for an empty one
DerefNullAsEmpty(ref) == Ok(ref.buf)

\* referenceFrame! read by the decoder: a property read on null throws
Deref(ref) == IF ref.null THEN Throw("TypeError") ELSE Ok(ref.buf)

\* the Key branch of the decoder loop at offset (just after the tag byte)
DecodeKey(s, offset) ==
    IF ~CanRead(s, offset, 4) THEN [error |-> "RangeError"]
    ELSE
      LET compressedSize == GetU32(s, offset)
          compressed == Slice(s, offset + 8, offset + 8 + compressedSize)
          frame == decompress(compressed)
      IN  IF frame.error # "none" THEN [error |-> frame.error]
          ELSE [error |-> "none", offset |-> offset + 8 + compressedSize,
                frame |-> frame.buf]

\* the Delta branch of the decoder loop at offset (just after the tag byte)
DecodeDelta(s, offset, ref) ==
    IF ~CanRead(s, offset, 4) \/ ~CanRead(s, offset + 4, 4)
       \/ ~CanRead(s, offset + 8, 4)
    THEN [error |-> "RangeError"]
    ELSE
      LET numChanges == GetU32(s, offset)
          posSize    == GetU32(s, offset + 4)
          valSize    == GetU32(s, offset + 8)
          posBytes   == Slice(s, offset + 12, offset + 12 + posSize)
          compressedValues == Slice(s, offset + 12 + posSize,
                                    offset + 12 + posSize + valSize)
          values == decompress(compressedValues)
          target == Deref(ref)
      IN  IF numChanges * 4 > Len(posBytes) THEN [error |-> "RangeError"]
          ELSE IF values.error # "none" THEN [error |-> values.error]
          ELSE IF target.error # "none" THEN [error |-> target.error]
          ELSE [error |-> "none",
                offset |-> offset + 12 + posSize + valSize,
                frame |-> applyDelta(target.buf,
                             [positions |-> PositionsOf(posBytes, numChanges),
                              values |-> values.buf],
                             Len(target.buf))]

----------------------------------------------------------------------------
(* Version 1 wire layout, as read by decompressV1:                         *)
(* magic | 1 | originalSize:4 | uniqueCount:2 | bitsPerIndex:1 |           *)
(* uniqueCount x (value:1 | count:4) | numRuns:4 | runs                    *)

\* number of occurrences of b in d
CountOf(d, b) == Cardinality({i \in 1..Len(d) : d[i] = b})

FreqChoices == {"count", "zeros", "ones", "mixed"}

\* the 4 stored frequency bytes of table entry i (1-based) holding value b
FreqBytes(choice, d, i, b) ==
    CASE choice = "count" -> U32LE(CountOf(d, b))
      [] choice = "zeros" -> <<0, 0, 0, 0>>
      [] choice = "ones"  -> <<255, 255, 255, 255>>
      [] OTHER            -> <<i % 256, b, 1, 255 - b>>

\* table entries lo..hi (1-based): value, then its 4 frequency bytes
RECURSIVE V1Table(_, _, _, _, _)
V1Table(choice, d, uniqueBytes, lo, hi) ==
    IF lo > hi THEN <<>>
    ELSE IF lo = hi
    THEN <<uniqueBytes[lo]>> \o FreqBytes(choice, d, lo, uniqueBytes[lo])
    ELSE LET mid == (lo + hi) \div 2
         IN  V1Table(choice, d, uniqueBytes, lo, mid)
             \o V1Table(choice, d, uniqueBytes, mid + 1, hi)

LegacyContainer(d, choice) ==
    LET uniqueBytes  == UniqueBytesOf(d)
        bitsPerIndex == BitsPerIndexOf(Len(uniqueBytes))
        rleRuns      == IF Len(d) = 0 THEN <<>> ELSE RleRunsOf(d, uniqueBytes)
    IN  MAGIC \o <<1>> \o U32LE(Len(d)) \o U16LE(Len(uniqueBytes))
        \o <<bitsPerIndex>>
        \o V1Table(choice, d, uniqueBytes, 1, Len(uniqueBytes))
        \o U32LE(Len(rleRuns))
        \o WriteRuns(rleRuns, RunBytesPerIndexOf(bitsPerIndex), 1, Len(rleRuns))

----------------------------------------------------------------------------
(* Inputs *)

Buffers(vals, maxLen) == UNION {[1..n -> vals] : n \in 0..maxLen}

\* "AAAAABBBBBCCCCC"
Scenario15 == [i \in 1..15 |-> IF i <= 5 THEN 65 ELSE IF i <= 10 THEN 66 ELSE 67]

\* the 256 byte values, each once, ascending
Ascending256 == [i \in 1..256 |-> i - 1]

\* 40 bytes of one value, then 40 of another: both candidates are 24 bytes
TieScenario == [i \in 1..80 |-> IF i <= 40 THEN 65 ELSE 66]

\* s repeated r times
RECURSIVE Repeat(_, _)
Repeat(s, r) == IF r <= 0 THEN <<>> ELSE s \o Repeat(s, r - 1)

\* every element of s repeated r times in place
Stretch(s, r) == [i \in 1..(Len(s) * r) |-> s[((i - 1) \div r) + 1]]

\* all short buffers; short buffers repeated, long enough for a packed
\* container to beat Raw; long runs, long enough for SymbolRLE to win
CodecInputs ==
    Buffers(ByteVals, MaxLen)
    \cup {Repeat(s, PackRepeat) : s \in Buffers(ByteVals, MaxLen)}
    \cup {Stretch(s, RunStretch) : s \in Buffers(ByteVals, MaxRunSeedLen)}
    \cup {Scenario15, Ascending256, TieScenario}

NullFrame == [null |-> TRUE, buf |-> <<>>]
FrameRef(b) == [null |-> FALSE, buf |-> b]
NoDelta == [positions |-> <<>>, values |-> <<>>]

CodecIdle ==
    /\ data = <<>> /\ container = <<>> /\ restored = NotRun
DeltaIdle ==
    /\ prev = <<>> /\ cur = <<>> /\ delta = NoDelta /\ applied = <<>>
SeqIdle ==
    /\ frames = <<>> /\ kfi = 1 /\ eI = 0 /\ referenceFrame = NullFrame
    /\ chunks = <<>> /\ stream = <<>>
    /\ dI = 0 /\ dOffset = 0 /\ dRef = NullFrame /\ dFrames = <<>>
    /\ dError = "none"
ParIdle ==
    /\ again = <<>> /\ calls = <<>> /\ refSlots = <<>>
HeapIdle ==
    /\ heap = <<>> /\ locals = <<>>

----------------------------------------------------------------------------
(* Single-buffer codec driven as in benchmarkSingle: compress, decompress *)

Init ==
    /\ pc = "compress"
    /\ data \in CodecInputs
    /\ container = <<>>
    /\ restored = NotRun
    /\ DeltaIdle
    /\ SeqIdle
    /\ ParIdle
    /\ HeapIdle

Compress ==
    /\ pc = "compress"
    /\ container' = compress(data)
    /\ pc' = "decompress"
    /\ UNCHANGED <<data, restored, deltaVars, seqVars, parVars,
                 heapVars>>

\* a version 1 container carrying the same buffer reaches the decoder
ReceiveLegacy ==
    /\ pc = "compress"
    /\ \E choice \in FreqChoices : container' = LegacyContainer(data, choice)
    /\ pc' = "decompressV1"
    /\ UNCHANGED <<data, restored, deltaVars, seqVars, parVars,
                 heapVars>>

Decompress ==
    /\ pc \in {"decompress", "decompressV1"}
    /\ restored' = decompress(container)
    /\ pc' = IF pc = "decompress" THEN "done" ELSE "doneV1"
    /\ UNCHANGED <<data, container, deltaVars, seqVars, parVars,
                 heapVars>>

Next == Compress \/ ReceiveLegacy \/ Decompress

Spec == Init /\ [][Next]_vars

----------------------------------------------------------------------------
(* computeDelta followed by applyDelta with the current buffer's length *)

DeltaInputs == Buffers(FrameVals, MaxDeltaLen)

InitDelta ==
    /\ pc = "computeDelta"
    /\ prev \in DeltaInputs
    /\ cur \in DeltaInputs
    /\ delta = NoDelta
    /\ applied = <<>>
    /\ CodecIdle
    /\ SeqIdle
    /\ ParIdle
    /\ HeapIdle

ComputeDelta ==
    /\ pc = "computeDelta"
    /\ delta' = computeDelta(prev, cur)
    /\ pc' = "applyDelta"
    /\ UNCHANGED <<prev, cur, applied, codecVars, seqVars, parVars,
                 heapVars>>

ApplyDelta ==
    /\ pc = "applyDelta"
    /\ applied' = applyDelta(prev, delta, Len(cur))
    /\ pc' = "deltaDone"
    /\ UNCHANGED <<prev, cur, delta, codecVars, seqVars, parVars,
                 heapVars>>

NextDelta == ComputeDelta \/ ApplyDelta

SpecDelta == InitDelta /\ [][NextDelta]_vars

\* the Delta branch of compressFrameSequence on the delta just computed:
\* taken when changeRatio > 0.5 does not hold, it pushes frameHeader,
\* posBytes and compressedValues
PackDelta ==
    /\ pc = "applyDelta"
    /\ ~SceneChange(Len(delta.positions), Len(cur))
    /\ chunks' = DeltaChunks(delta)
    /\ pc' = "packed"
    /\ UNCHANGED <<codecVars, deltaVars, frames, kfi, eI, referenceFrame,
                   stream, decVars, parVars, heapVars>>

NextPack == ComputeDelta \/ PackDelta

SpecPack == InitDelta /\ [][NextPack]_vars

----------------------------------------------------------------------------
(* compressFrameSequence, one action per loop iteration, followed by       *)
(* decompressFrameSequence on its result, as in benchmarkFrames            *)

FrameInputs == Buffers(FrameVals, MaxFrameLen)
FrameLists == UNION {[1..n -> FrameInputs] : n \in 0..MaxFrames}

DecoderIdle ==
    /\ dI = 0 /\ dOffset = 0 /\ dRef = NullFrame /\ dFrames = <<>>
    /\ dError = "none"

InitSeq ==
    /\ pc = "seqStart"
    /\ frames \in FrameLists
    /\ kfi \in 1..MaxInterval
    /\ eI = 0
    /\ referenceFrame = NullFrame
    /\ chunks = <<>>
    /\ stream = <<>>
    /\ DecoderIdle
    /\ CodecIdle
    /\ DeltaIdle
    /\ ParIdle
    /\ HeapIdle

\* if (frames.length === 0) return new Uint8Array(0)
EncodeEmpty ==
    /\ pc = "seqStart"
    /\ Len(frames) = 0
    /\ stream' = <<>>
    /\ pc' = "decodeStart"
    /\ UNCHANGED <<parVars, heapVars, codecVars, deltaVars, encVars, decVars>>

\* the sequence header is pushed and the loop starts
EncodeBegin ==
    /\ pc = "seqStart"
    /\ Len(frames) > 0
    /\ chunks' = <<SeqHeader(Len(frames), kfi)>>
    /\ eI' = 0
    /\ referenceFrame' = NullFrame
    /\ pc' = "encode"
    /\ UNCHANGED <<parVars, heapVars, codecVars, deltaVars, frames, kfi, stream,
                   decVars>>

\* loop iteration with isKeyframe
EncodeKeyframe ==
    /\ pc = "encode"
    /\ eI < Len(frames)
    /\ IsKeyframe(eI, kfi)
    /\ chunks' = chunks \o KeyChunks(frames[eI + 1])
    /\ referenceFrame' = FrameRef(frames[eI + 1])
    /\ eI' = eI + 1
    /\ UNCHANGED <<pc, parVars, heapVars, codecVars, deltaVars, frames, kfi, stream,
                   decVars>>

\* EncodeInterFrame taking every frame it has encoded as the next reference,
\* Delta units included
EncodeInterFrameChained ==
    /\ pc = "encode"
    /\ eI < Len(frames)
    /\ ~IsKeyframe(eI, kfi)
    /\ ~referenceFrame.null
    /\ LET dl == computeDelta(referenceFrame.buf, frames[eI + 1])
       IN  IF SceneChange(Len(dl.positions), Len(frames[eI + 1]))
           THEN chunks' = chunks \o KeyChunks(frames[eI + 1])
           ELSE chunks' = chunks \o DeltaChunks(dl)
    /\ referenceFrame' = FrameRef(frames[eI + 1])
    /\ eI' = eI + 1
    /\ UNCHANGED <<pc, parVars, heapVars, codecVars, deltaVars, frames, kfi, stream,
                   decVars>>

\* loop iteration without isKeyframe: scene change or Delta unit
EncodeInterFrame ==
    /\ pc = "encode"
    /\ eI < Len(frames)
    /\ ~IsKeyframe(eI, kfi)
    /\ ~referenceFrame.null
    /\ LET dl == computeDelta(referenceFrame.buf, frames[eI + 1])
       IN  IF SceneChange(Len(dl.positions), Len(frames[eI + 1]))
           THEN /\ chunks' = chunks \o KeyChunks(frames[eI + 1])
                /\ referenceFrame' = FrameRef(frames[eI + 1])
           ELSE /\ chunks' = chunks \o DeltaChunks(dl)
                /\ referenceFrame' = referenceFrame
    /\ eI' = eI + 1
    /\ UNCHANGED <<pc, parVars, heapVars, codecVars, deltaVars, frames, kfi, stream,
                   decVars>>

\* the chunks are concatenated and returned
EncodeFinish ==
    /\ pc = "encode"
    /\ eI >= Len(frames)
    /\ stream' = Concat(chunks, 1, Len(chunks))
    /\ pc' = "decodeStart"
    /\ UNCHANGED <<parVars, heapVars, codecVars, deltaVars, encVars, decVars>>

\* if (data.length === 0) return []
DecodeEmpty ==
    /\ pc = "decodeStart"
    /\ Len(stream) = 0
    /\ dFrames' = <<>>
    /\ pc' = "seqDone"
    /\ UNCHANGED <<parVars, heapVars, codecVars, deltaVars, encVars, stream, dI,
                   dOffset, dRef, dError>>

\* frameCount is read, the keyframeInterval field is skipped
DecodeBegin ==
    /\ pc = "decodeStart"
    /\ Len(stream) > 0
    /\ IF CanRead(stream, 0, 4)
       THEN /\ dOffset' = 8 /\ dI' = 0 /\ dRef' = NullFrame
            /\ dFrames' = <<>> /\ dError' = "none"
            /\ pc' = "decode"
       ELSE /\ dError' = "RangeError" /\ pc' = "seqFailed"
            /\ UNCHANGED <<dOffset, dI, dRef, dFrames>>
    /\ UNCHANGED <<parVars, heapVars, codecVars, deltaVars, encVars, stream>>

FrameCountOf(s) == GetU32(s, 0)

\* loop iteration on a unit tagged 'K'
DecodeKeyUnit ==
    /\ pc = "decode"
    /\ dI < FrameCountOf(stream)
    /\ At(stream, dOffset) = TagKey
    /\ LET r == DecodeKey(stream, dOffset + 1)
       IN  IF r.error = "none"
           THEN /\ dFrames' = Append(dFrames, r.frame)
                /\ dRef' = FrameRef(r.frame)
                /\ dOffset' = r.offset
                /\ dI' = dI + 1
                /\ UNCHANGED <<pc, dError>>
           ELSE /\ dError' = r.error
                /\ pc' = "seqFailed"
                /\ UNCHANGED <<dFrames, dRef, dOffset, dI>>
    /\ UNCHANGED <<parVars, heapVars, codecVars, deltaVars, encVars, stream>>

\* loop iteration on a unit tagged 'D'
DecodeDeltaUnit ==
    /\ pc = "decode"
    /\ dI < FrameCountOf(stream)
    /\ At(stream, dOffset) = TagDelta
    /\ LET r == DecodeDelta(stream, dOffset + 1, dRef)
       IN  IF r.error = "none"
           THEN /\ dFrames' = Append(dFrames, r.frame)
                /\ dOffset' = r.offset
                /\ dI' = dI + 1
                /\ UNCHANGED <<pc, dError, dRef>>
           ELSE /\ dError' = r.error
                /\ pc' = "seqFailed"
                /\ UNCHANGED <<dFrames, dRef, dOffset, dI>>
    /\ UNCHANGED <<parVars, heapVars, codecVars, deltaVars, encVars, stream>>

\* loop iteration on any other tag byte: neither branch is taken
DecodeOtherUnit ==
    /\ pc = "decode"
    /\ dI < FrameCountOf(stream)
    /\ At(stream, dOffset) \notin {TagKey, TagDelta}
    /\ dOffset' = dOffset + 1
    /\ dI' = dI + 1
    /\ UNCHANGED <<pc, parVars, heapVars, codecVars, deltaVars, encVars, stream, dRef,
                   dFrames, dError>>

\* return frames
DecodeFinish ==
    /\ pc = "decode"
    /\ dI >= FrameCountOf(stream)
    /\ pc' = "seqDone"
    /\ UNCHANGED <<codecVars, deltaVars, seqVars, parVars,
                 heapVars>>

NextSeq ==
    \/ EncodeEmpty \/ EncodeBegin \/ EncodeKeyframe \/ EncodeInterFrame
    \/ EncodeFinish
    \/ DecodeEmpty \/ DecodeBegin \/ DecodeKeyUnit \/ DecodeDeltaUnit
    \/ DecodeFinish

SpecSeq == InitSeq /\ [][NextSeq]_vars

----------------------------------------------------------------------------
(* decompressFrameSequence on containers that no encoder call produced:    *)
(* any order of Key units, Delta units and bytes with an unknown tag       *)

FlattenChunks(cs) == Concat(cs, 1, Len(cs))

StreamUnits ==
    {FlattenChunks(KeyChunks(b)) : b \in {<<>>, <<7>>, <<0, 7>>}}
    \cup {FlattenChunks(DeltaChunks(dl)) :
            dl \in {NoDelta,
                    [positions |-> <<0>>, values |-> <<7>>],
                    [positions |-> <<1>>, values |-> <<0>>]}}
    \cup {<<0>>}

UnitLists == UNION {[1..n -> StreamUnits] : n \in 0..MaxUnits}

\* header with frame_count equal to the number of units, or one more
StreamInputs ==
    {<<>>, <<1>>}
    \cup {SeqHeader(Len(us) + extra, 1) \o FlattenChunks(us) :
            us \in UnitLists, extra \in {0, 1}}

InitStream ==
    /\ pc = "decodeStart"
    /\ stream \in StreamInputs
    /\ frames = <<>> /\ kfi = 1 /\ eI = 0 /\ referenceFrame = NullFrame
    /\ chunks = <<>>
    /\ DecoderIdle
    /\ CodecIdle
    /\ DeltaIdle
    /\ ParIdle
    /\ HeapIdle

NextStream ==
    \/ DecodeEmpty \/ DecodeBegin \/ DecodeKeyUnit \/ DecodeDeltaUnit
    \/ DecodeOtherUnit \/ DecodeFinish

SpecStream == InitStream /\ [][NextStream]_vars

----------------------------------------------------------------------------
(* decompress on containers that compress did not produce: any magic,      *)
(* version, mode and original length, and run records whose lengths fall   *)
(* short of, meet or exceed the original length                            *)

\* a version 2 SymbolRLE container holding the given table and run records
RleContainer(originalSize, table, runs, trailing) ==
    MAGIC \o <<VERSION, 1>> \o U32LE(originalSize) \o U16LE(Len(table))
    \o table \o U32LE(Len(runs)) \o WriteRuns(runs, 1, 1, Len(runs))
    \o trailing

\* the same table and run records in the version 1 layout
RleContainerV1(originalSize, table, runs, trailing) ==
    MAGIC \o <<1>> \o U32LE(originalSize) \o U16LE(Len(table))
    \o <<BitsPerIndexOf(Len(table))>>
    \o V1Table("zeros", <<>>, table, 1, Len(table))
    \o U32LE(Len(runs)) \o WriteRuns(runs, 1, 1, Len(runs))
    \o trailing

CraftedTable == <<65, 66>>
CraftedRuns ==
    UNION {[1..n -> [index : {0, 1}, count : 0..MaxRunLen]] : n \in 0..MaxRuns}
Trailings == {<<>>, <<9, 9>>}

RleInputs ==
    {RleContainer(n, CraftedTable, runs, t) :
        n \in 0..MaxOriginal, runs \in CraftedRuns, t \in Trailings}
    \cup {RleContainerV1(n, CraftedTable, runs, t) :
        n \in 0..MaxOriginal, runs \in CraftedRuns, t \in Trailings}

\* the magic, and the magic with one byte changed
MagicChoices ==
    {MAGIC, <<81, 87, 68, 67>>, <<80, 0, 68, 67>>, <<80, 87, 69, 67>>,
     <<80, 87, 68, 0>>}
VersionChoices == {0, 1, 2, 3}
ModeChoices == {0, 1, 2, 254, 255}

\* what follows the 10-byte header: nothing, too little for a table, a
\* one-entry table with packed or run data, raw bytes
BodyChoices ==
    {<<>>, <<1>>, <<1, 0, 65, 0, 0>>, <<1, 0, 65, 1, 0, 0, 0, 0, 2, 0>>,
     <<65, 66>>}

HeaderInputs ==
    {m \o <<v, mode>> \o U32LE(n) \o body :
        m \in MagicChoices, v \in VersionChoices, mode \in ModeChoices,
        n \in 0..MaxOriginal, body \in BodyChoices}

\* containers cut short of the 10 bytes decompress asks for
ShortInputs == {SubSeq(EmptyContainer, 1, n) : n \in 0..9}

DecodeInputs == RleInputs \cup HeaderInputs \cup ShortInputs

InitDecode ==
    /\ \/ /\ pc = "compress"
          /\ data \in Buffers(ByteVals, 1)
          /\ container = <<>>
       \/ /\ pc = "received"
          /\ data = <<>>
          /\ container \in DecodeInputs
    /\ restored = NotRun
    /\ DeltaIdle
    /\ SeqIdle
    /\ ParIdle
    /\ HeapIdle

\* decompress is called on a container received from elsewhere
DecompressReceived ==
    /\ pc = "received"
    /\ restored' = decompress(container)
    /\ pc' = "decoded"
    /\ UNCHANGED <<data, container, deltaVars, seqVars, parVars,
                 heapVars>>

NextDecode == Compress \/ Decompress \/ DecompressReceived

SpecDecode == InitDecode /\ [][NextDecode]_vars

----------------------------------------------------------------------------
(* compress called twice on the same buffer; the second call's histogram   *)
(* may hand out its keys in any order                                      *)

Reverse(s) == [i \in 1..Len(s) |-> s[Len(s) + 1 - i]]

\* the orders tried for a key list: every permutation of a short list; the
\* given order, its reverse and its two halves swapped for a longer one
KeyOrders(keys) ==
    IF Len(keys) <= MaxPermuted
    THEN {[i \in 1..Len(keys) |-> keys[f[i]]] :
            f \in {g \in [1..Len(keys) -> 1..Len(keys)] :
                     \A i, j \in 1..Len(keys) : g[i] = g[j] => i = j}}
    ELSE {keys, Reverse(keys),
          SubSeq(keys, Len(keys) \div 2 + 1, Len(keys))
          \o SubSeq(keys, 1, Len(keys) \div 2)}

\* short buffers, short buffers repeated (stored packed), long runs (stored
\* as SymbolRLE) and the three scenarios
TwiceInputs ==
    Buffers(ByteVals, MaxTwiceLen)
    \cup {Repeat(s, PackRepeat) : s \in Buffers(ByteVals, MaxTwiceLen)}
    \cup {Stretch(s, RunStretch) : s \in Buffers(ByteVals, MaxRunSeedLen)}
    \cup {Scenario15, Ascending256, TieScenario}

InitTwice ==
    /\ pc = "compress"
    /\ data \in TwiceInputs
    /\ container = <<>>
    /\ restored = NotRun
    /\ DeltaIdle
    /\ SeqIdle
    /\ ParIdle
    /\ HeapIdle

CompressAgain ==
    /\ pc = "decompress"
    /\ \E keys \in KeyOrders(HistogramKeys(data, 1, Len(data), <<>>)) :
          again' = compressWithKeys(data, keys)
    /\ pc' = "again"
    /\ UNCHANGED <<codecVars, deltaVars, seqVars, calls, refSlots,
                   heapVars>>

NextTwice == Compress \/ CompressAgain

SpecTwice == InitTwice /\ [][NextTwice]_vars

----------------------------------------------------------------------------
(* encodeMode1 on its own, whether or not compress would keep its result,  *)
(* followed by decompress of the SymbolRLE container it built              *)

\* the byte values 0 .. n - 1, each once, ascending
AscendingTo(n) == [i \in 1..n |-> i - 1]

\* one value repeated once more than a run record can count
LongRun == [i \in 1..(RunCap + 1) |-> 0]

\* a short run of one value, then a run of RunCap + 1 of another
LongRunAfterShort == [i \in 1..(RunCap + 3) |-> IF i <= 2 THEN 65 ELSE 0]

\* a run of exactly RunCap, then another value
FullRun == [i \in 1..(RunCap + 1) |-> IF i <= RunCap THEN 0 ELSE 65]

Mode1Inputs ==
    (Buffers(ByteVals, MaxMode1Len) \ {<<>>})
    \cup {AscendingTo(n) : n \in 1..ByteCount}
    \cup {LongRun, LongRunAfterShort, FullRun}

InitMode1 ==
    /\ pc = "encodeMode1"
    /\ data \in Mode1Inputs
    /\ container = <<>>
    /\ restored = NotRun
    /\ DeltaIdle
    /\ SeqIdle
    /\ ParIdle
    /\ HeapIdle

\* the call of encodeMode1 made by compress, with the arguments it passes
EncodeMode1 ==
    /\ pc = "encodeMode1"
    /\ LET uniqueBytes == UniqueBytesOf(data)
       IN  container' = encodeMode1(data, uniqueBytes,
                                    BitsPerIndexOf(Len(uniqueBytes)))
    /\ pc' = "decodeMode1"
    /\ UNCHANGED <<data, restored, deltaVars, seqVars, parVars,
                 heapVars>>

DecodeMode1 ==
    /\ pc = "decodeMode1"
    /\ restored' = decompress(container)
    /\ pc' = "doneMode1"
    /\ UNCHANGED <<data, container, deltaVars, seqVars, parVars,
                 heapVars>>

NextMode1 == EncodeMode1 \/ DecodeMode1

SpecMode1 == InitMode1 /\ [][NextMode1]_vars

----------------------------------------------------------------------------
(* Two frame-sequence calls in progress at once, their steps (call entry,  *)
(* one loop iteration, return) interleaved in any order.  calls[id] holds  *)
(* the locals of call id; its referenceFrame lives in refSlots[SlotOf(id)] *)

CallIds == {1, 2}
Finished == {"returned", "thrown"}

\* SlotOf for a referenceFrame kept in one module-level variable
SlotOfShared(id) == 1

\* let referenceFrame: a binding created by each call for itself
SlotOf(id) == id

\* the locals of a compressFrameSequence call at entry
EncoderCall(fs, k) ==
    [op |-> "compressFrameSequence", pc |-> "start", frames |-> fs,
     kfi |-> k, i |-> 0, chunks |-> <<>>, data |-> <<>>, offset |-> 0,
     out |-> <<>>, error |-> "none", result |-> <<>>]

\* the locals of a decompressFrameSequence call at entry
DecoderCall(s) ==
    [op |-> "decompressFrameSequence", pc |-> "start", frames |-> <<>>,
     kfi |-> 1, i |-> 0, chunks |-> <<>>, data |-> s, offset |-> 0,
     out |-> <<>>, error |-> "none", result |-> <<>>]

Threw(c, ref, e) == [call |-> [c EXCEPT !.pc = "thrown", !.error = e],
                     ref |-> ref]

\* one step of compressFrameSequence on locals c and reference binding ref
EncoderStep(c, ref) ==
    IF c.pc = "start"
    THEN IF Len(c.frames) = 0
         THEN [call |-> [c EXCEPT !.pc = "returned", !.result = <<>>],
               ref |-> ref]
         ELSE [call |-> [c EXCEPT !.pc = "loop", !.i = 0,
                            !.chunks = <<SeqHeader(Len(c.frames), c.kfi)>>],
               ref |-> NullFrame]
    ELSE IF c.i >= Len(c.frames)
    THEN [call |-> [c EXCEPT !.pc = "returned",
                       !.result = Concat(c.chunks, 1, Len(c.chunks))],
          ref |-> ref]
    ELSE
      LET frame == c.frames[c.i + 1]
          key   == [call |-> [c EXCEPT !.chunks = c.chunks \o KeyChunks(frame),
                                 !.i = c.i + 1],
                    ref |-> FrameRef(frame)]
      IN  IF IsKeyframe(c.i, c.kfi) THEN key
          ELSE IF ref.null THEN Threw(c, ref, "TypeError")
          ELSE
            LET dl == computeDelta(ref.buf, frame)
            IN  IF SceneChange(Len(dl.positions), Len(frame)) THEN key
                ELSE [call |-> [c EXCEPT
                                  !.chunks = c.chunks \o DeltaChunks(dl),
                                  !.i = c.i + 1],
                      ref |-> ref]

\* one step of decompressFrameSequence on locals c and reference binding ref
DecoderStep(c, ref) ==
    IF c.pc = "start"
    THEN IF Len(c.data) = 0
         THEN [call |-> [c EXCEPT !.pc = "returned", !.out = <<>>],
               ref |-> ref]
         ELSE IF ~CanRead(c.data, 0, 4) THEN Threw(c, ref, "RangeError")
         ELSE [call |-> [c EXCEPT !.pc = "loop", !.i = 0, !.offset = 8,
                            !.out = <<>>],
               ref |-> NullFrame]
    ELSE IF c.i >= GetU32(c.data, 0)
    THEN [call |-> [c EXCEPT !.pc = "returned"], ref |-> ref]
    ELSE
      LET type == At(c.data, c.offset)
      IN  IF type = TagKey
          THEN LET r == DecodeKey(c.data, c.offset + 1)
               IN  IF r.error # "none" THEN Threw(c, ref, r.error)
                   ELSE [call |-> [c EXCEPT !.out = Append(c.out, r.frame),
                                      !.offset = r.offset, !.i = c.i + 1],
                         ref |-> FrameRef(r.frame)]
          ELSE IF type = TagDelta
          THEN LET r == DecodeDelta(c.data, c.offset + 1, ref)
               IN  IF r.error # "none" THEN Threw(c, ref, r.error)
                   ELSE [call |-> [c EXCEPT !.out = Append(c.out, r.frame),
                                      !.offset = r.offset, !.i = c.i + 1],
                         ref |-> ref]
          ELSE [call |-> [c EXCEPT !.offset = c.offset + 1, !.i = c.i + 1],
                ref |-> ref]

StepCall(c, ref) ==
    IF c.op = "compressFrameSequence" THEN EncoderStep(c, ref)
    ELSE DecoderStep(c, ref)

\* the steps of one call taken one after another until it returns or throws
RECURSIVE RunOn(_)
RunOn(cr) ==
    IF cr.call.pc \in Finished THEN cr.call
    ELSE RunOn(StepCall(cr.call, cr.ref))

\* the call run from locals c and binding ref, with no other call
RunAlone(c, ref) == RunOn([call |-> c, ref |-> ref])

ParFrames == {<<7, 7>>, <<7, 0>>, <<0, 0>>}
ParFrameLists == UNION {[1..n -> ParFrames] : n \in 0..MaxParFrames}
ParIntervals == {1, 2}

\* the stream compressFrameSequence returns for fs and k
StreamOf(fs, k) == RunAlone(EncoderCall(fs, k), NullFrame).result

\* a stream whose only unit is a Delta unit
DeltaOnlyStream == SeqHeader(1, 1) \o FlattenChunks(DeltaChunks(NoDelta))

\* what a call is made on: frames and interval for the encoder; for the
\* decoder the stream of such frames, or the Delta-only stream
CallKinds == {"compressFrameSequence", "decompressFrameSequence", "deltaOnly"}
CallAt(kind, fs, k) ==
    IF kind = "compressFrameSequence" THEN EncoderCall(fs, k)
    ELSE IF kind = "decompressFrameSequence" THEN DecoderCall(StreamOf(fs, k))
    ELSE DecoderCall(DeltaOnlyStream)

InitPar ==
    /\ pc = "calls"
    /\ \E kind1 \in CallKinds, kind2 \in CallKinds :
       \E fs1 \in ParFrameLists, fs2 \in ParFrameLists :
       \E k1 \in ParIntervals, k2 \in ParIntervals :
          calls = <<CallAt(kind1, fs1, k1), CallAt(kind2, fs2, k2)>>
    /\ refSlots = [id \in CallIds |-> NullFrame]
    /\ again = <<>>
    /\ CodecIdle
    /\ DeltaIdle
    /\ SeqIdle
    /\ HeapIdle

\* call id takes its next step
CallStep(id) ==
    /\ pc = "calls"
    /\ calls[id].pc \notin Finished
    /\ LET r == StepCall(calls[id], refSlots[SlotOf(id)])
       IN  /\ calls' = [calls EXCEPT ![id] = r.call]
           /\ refSlots' = [refSlots EXCEPT ![SlotOf(id)] = r.ref]
    /\ UNCHANGED <<pc, again, codecVars, deltaVars, seqVars, heapVars>>

NextPar == CallStep(1) \/ CallStep(2)

SpecPar == InitPar /\ [][NextPar]_vars

----------------------------------------------------------------------------
(* encodeMode0 on its own, whether or not compress would keep its result,  *)
(* followed by decompress of the SymbolPacked container it built           *)

\* short buffers; every table size 1 .. 256 with each value once, and with
\* each value twice, so that the length differs from the table size
Mode0Inputs ==
    (Buffers(ByteVals, MaxMode0Len) \ {<<>>})
    \cup {AscendingTo(n) : n \in 1..ByteCount}
    \cup {Repeat(AscendingTo(n), 2) : n \in 1..ByteCount}

InitMode0 ==
    /\ pc = "encodeMode0"
    /\ data \in Mode0Inputs
    /\ container = <<>>
    /\ restored = NotRun
    /\ DeltaIdle
    /\ SeqIdle
    /\ ParIdle
    /\ HeapIdle

\* the call of encodeMode0 made by compress, with the arguments it passes
EncodeMode0 ==
    /\ pc = "encodeMode0"
    /\ LET uniqueBytes == UniqueBytesOf(data)
       IN  container' = encodeMode0(data, uniqueBytes,
                                    BitsPerIndexOf(Len(uniqueBytes)))
    /\ pc' = "decodeMode0"
    /\ UNCHANGED <<data, restored, deltaVars, seqVars, parVars,
                 heapVars>>

DecodeMode0 ==
    /\ pc = "decodeMode0"
    /\ restored' = decompress(container)
    /\ pc' = "doneMode0"
    /\ UNCHANGED <<data, container, deltaVars, seqVars, parVars,
                 heapVars>>

NextMode0 == EncodeMode0 \/ DecodeMode0

SpecMode0 == InitMode0 /\ [][NextMode0]_vars

----------------------------------------------------------------------------
(* The same calls on a heap of ArrayBuffers: a typed array is a view       *)
(* (buffer, byteOffset, length); new Uint8Array(..) and slice allocate a   *)
(* buffer, assignment and push copy the view and share the buffer          *)

ViewOf(buf, off, len) == [buf |-> buf, off |-> off, len |-> len]

\* the elements seen through view v
Bytes(h, v) == SubSeq(h[v.buf], v.off + 1, v.off + v.len)

\* new Uint8Array(n) filled with the given elements
NewArray(h, elems) ==
    [heap |-> Append(h, elems), view |-> ViewOf(Len(h) + 1, 0, Len(elems))]

\* v.subarray(from, to): a view on the same buffer
SubarrayView(h, v, from, to) ==
    LET f == Min(Max(from, 0), v.len)
        t == Min(Max(to, 0), v.len)
    IN  [heap |-> h, view |-> ViewOf(v.buf, v.off + f, Max(t - f, 0))]

\* v.slice(from, to): the elements copied into a new buffer
SliceView(h, v, from, to) == NewArray(h, Slice(Bytes(h, v), from, to))

\* element writes through view v that leave it holding elems
StoreInto(h, v, elems) ==
    [h EXCEPT ![v.buf] = SubSeq(@, 1, v.off) \o elems
                         \o SubSeq(@, v.off + Len(elems) + 1, Len(@))]

\* compress: every return path hands out an array it allocated
hCompress(h, d) == NewArray(h, compress(Bytes(h, d)))

\* decompress: Raw returns compressed.slice(..), the other paths an array
\* allocated with new Uint8Array
hDecompress(h, c) ==
    LET bytes == Bytes(h, c)
        r     == decompress(bytes)
    IN  IF r.error # "none"
        THEN [heap |-> h, view |-> ViewOf(0, 0, 0), error |-> r.error]
        ELSE IF bytes[5] = VERSION /\ GetU32(bytes, 6) # 0 /\ bytes[6] = 255
        THEN LET s == SliceView(h, c, 10, 10 + GetU32(bytes, 6))
             IN  [heap |-> s.heap, view |-> s.view, error |-> "none"]
        ELSE LET a == NewArray(h, r.buf)
             IN  [heap |-> a.heap, view |-> a.view, error |-> "none"]

\* computeDelta: positions and values are new typed arrays
hComputeDelta(h, previous, current) ==
    LET dl == computeDelta(Bytes(h, previous), Bytes(h, current))
        ps == NewArray(h, dl.positions)
        vs == NewArray(ps.heap, dl.values)
    IN  [heap |-> vs.heap, positions |-> ps.view, values |-> vs.view]

\* applyDelta: result is allocated, previous.slice(0, newLength) is a
\* temporary copy, and every write goes to result
hApplyDelta(h, previous, dl, newLength) ==
    LET result == NewArray(h, Zeros(newLength))
        head   == SliceView(result.heap, previous, 0, newLength)
    IN  [heap |-> StoreInto(head.heap, result.view,
                            applyDelta(Bytes(h, previous), dl, newLength)),
         view |-> result.view]

\* compressFrameSequence: the chunks are copied into a new result array
hCompressFrameSequence(h, fs, k) ==
    NewArray(h, StreamOf([i \in 1..Len(fs) |-> Bytes(h, fs[i])], k))

NullView == [null |-> TRUE, view |-> ViewOf(0, 0, 0)]
RefTo(v) == [null |-> FALSE, view |-> v]
HeapBuffers ==
    Buffers(ByteVals, MaxHeapLen)
    \cup {TieScenario, Stretch(<<255, 0>>, RunStretch)}
HeapFrames == Buffers(FrameVals, MaxHeapLen)

InitHeap ==
    /\ \/ \E d \in HeapBuffers :
             /\ pc = "hCompress"
             /\ heap = <<d>>
             /\ locals = [data |-> ViewOf(1, 0, Len(d))]
       \/ \E p \in HeapFrames, c \in HeapFrames :
             /\ pc = "hComputeDelta"
             /\ heap = <<p, c>>
             /\ locals = [previous |-> ViewOf(1, 0, Len(p)),
                          current  |-> ViewOf(2, 0, Len(c))]
       \/ \E fs \in ParFrameLists, k \in ParIntervals :
             /\ pc = "hEncodeSeq"
             /\ heap = fs
             /\ locals = [frames |-> [i \in 1..Len(fs) |->
                                        ViewOf(i, 0, Len(fs[i]))],
                          keyframeInterval |-> k]
    /\ CodecIdle
    /\ DeltaIdle
    /\ SeqIdle
    /\ ParIdle

HeapCompress ==
    /\ pc = "hCompress"
    /\ LET r == hCompress(heap, locals.data)
       IN  /\ heap' = r.heap
           /\ locals' = [data |-> locals.data, compressed |-> r.view]
    /\ pc' = "hDecompress"
    /\ UNCHANGED <<codecVars, deltaVars, seqVars, parVars>>

HeapDecompress ==
    /\ pc = "hDecompress"
    /\ LET r == hDecompress(heap, locals.compressed)
       IN  /\ heap' = r.heap
           /\ locals' = [data |-> locals.data,
                         compressed |-> locals.compressed,
                         restored |-> r.view]
    /\ pc' = "hCodecDone"
    /\ UNCHANGED <<codecVars, deltaVars, seqVars, parVars>>

HeapComputeDelta ==
    /\ pc = "hComputeDelta"
    /\ LET r == hComputeDelta(heap, locals.previous, locals.current)
       IN  /\ heap' = r.heap
           /\ locals' = [previous |-> locals.previous,
                         current |-> locals.current,
                         positions |-> r.positions, values |-> r.values]
    /\ pc' = "hApplyDelta"
    /\ UNCHANGED <<codecVars, deltaVars, seqVars, parVars>>

HeapApplyDelta ==
    /\ pc = "hApplyDelta"
    /\ LET r == hApplyDelta(heap, locals.previous,
                            [positions |-> Bytes(heap, locals.positions),
                             values |-> Bytes(heap, locals.values)],
                            locals.current.len)
       IN  /\ heap' = r.heap
           /\ locals' = [previous |-> locals.previous,
                         current |-> locals.current,
                         positions |-> locals.positions,
                         values |-> locals.values,
                         result |-> r.view]
    /\ pc' = "hDeltaDone"
    /\ UNCHANGED <<codecVars, deltaVars, seqVars, parVars>>

\* compressFrameSequence(frames, keyframeInterval), then the first lines of
\* decompressFrameSequence on what it returned
HeapEncodeSeq ==
    /\ pc = "hEncodeSeq"
    /\ LET r == hCompressFrameSequence(heap, locals.frames,
                                       locals.keyframeInterval)
       IN  /\ heap' = r.heap
           /\ locals' = [input |-> locals.frames, data |-> r.view,
                         offset |-> 8, i |-> 0, frames |-> <<>>,
                         referenceFrame |-> NullView, numChanges |-> 0,
                         compressed |-> ViewOf(0, 0, 0),
                         posBytes |-> ViewOf(0, 0, 0),
                         compressedValues |-> ViewOf(0, 0, 0),
                         values |-> ViewOf(0, 0, 0)]
           /\ pc' = IF r.view.len = 0 THEN "hSeqDone" ELSE "hDecode"
    /\ UNCHANGED <<codecVars, deltaVars, seqVars, parVars>>

\* decoder loop iteration on a unit tagged 'K': compressedSize is read and
\* compressed is sliced out of data
HeapKeySlice ==
    /\ pc = "hDecode"
    /\ LET bytes == Bytes(heap, locals.data)
       IN  /\ locals.i < FrameCountOf(bytes)
           /\ At(bytes, locals.offset) = TagKey
           /\ CanRead(bytes, locals.offset + 1, 4)
           /\ LET compressedSize == GetU32(bytes, locals.offset + 1)
                  compressed == SliceView(heap, locals.data,
                                          locals.offset + 9,
                                          locals.offset + 9 + compressedSize)
              IN  /\ heap' = compressed.heap
                  /\ locals' = [locals EXCEPT
                        !.compressed = compressed.view,
                        !.offset = locals.offset + 9 + compressedSize]
    /\ pc' = "hKeyFrame"
    /\ UNCHANGED <<codecVars, deltaVars, seqVars, parVars>>

\* frame = decompress(compressed); frames.push(frame);
\* referenceFrame = frame
HeapKeyFrame ==
    /\ pc = "hKeyFrame"
    /\ LET frame == hDecompress(heap, locals.compressed)
       IN  /\ frame.error = "none"
           /\ heap' = frame.heap
           /\ locals' = [locals EXCEPT
                           !.frames = Append(@, frame.view),
                           !.referenceFrame = RefTo(frame.view),
                           !.i = @ + 1]
    /\ pc' = "hDecode"
    /\ UNCHANGED <<codecVars, deltaVars, seqVars, parVars>>

\* decoder loop iteration on a unit tagged 'D': the three sizes are read
\* and posBytes and compressedValues are sliced out of data
HeapDeltaSlices ==
    /\ pc = "hDecode"
    /\ LET bytes == Bytes(heap, locals.data)
       IN  /\ locals.i < FrameCountOf(bytes)
           /\ At(bytes, locals.offset) = TagDelta
           /\ CanRead(bytes, locals.offset + 1, 12)
           /\ LET posSize  == GetU32(bytes, locals.offset + 5)
                  valSize  == GetU32(bytes, locals.offset + 9)
                  posBytes == SliceView(heap, locals.data,
                                        locals.offset + 13,
                                        locals.offset + 13 + posSize)
                  compressedValues ==
                      SliceView(posBytes.heap, locals.data,
                                locals.offset + 13 + posSize,
                                locals.offset + 13 + posSize + valSize)
              IN  /\ heap' = compressedValues.heap
                  /\ locals' = [locals EXCEPT
                        !.numChanges = GetU32(bytes, locals.offset + 1),
                        !.posBytes = posBytes.view,
                        !.compressedValues = compressedValues.view,
                        !.offset = locals.offset + 13 + posSize + valSize]
    /\ pc' = "hDeltaValues"
    /\ UNCHANGED <<codecVars, deltaVars, seqVars, parVars>>

\* positions is a view on posBytes; values = decompress(compressedValues)
HeapDeltaValues ==
    /\ pc = "hDeltaValues"
    /\ locals.numChanges * 4 <= locals.posBytes.len
    /\ LET values == hDecompress(heap, locals.compressedValues)
       IN  /\ values.error = "none"
           /\ heap' = values.heap
           /\ locals' = [locals EXCEPT !.values = values.view]
    /\ pc' = "hDeltaApply"
    /\ UNCHANGED <<codecVars, deltaVars, seqVars, parVars>>

\* frame = applyDelta(referenceFrame!, {positions, values},
\* referenceFrame!.length); frames.push(frame)
HeapDeltaApply ==
    /\ pc = "hDeltaApply"
    /\ ~locals.referenceFrame.null
    /\ LET frame == hApplyDelta(
                      heap, locals.referenceFrame.view,
                      [positions |-> PositionsOf(
                           Bytes(heap, locals.posBytes), locals.numChanges),
                       values |-> Bytes(heap, locals.values)],
                      locals.referenceFrame.view.len)
       IN  /\ heap' = frame.heap
           /\ locals' = [locals EXCEPT !.frames = Append(@, frame.view),
                                       !.i = @ + 1]
    /\ pc' = "hDecode"
    /\ UNCHANGED <<codecVars, deltaVars, seqVars, parVars>>

\* return frames
HeapDecodeFinish ==
    /\ pc = "hDecode"
    /\ locals.i >= FrameCountOf(Bytes(heap, locals.data))
    /\ pc' = "hSeqDone"
    /\ UNCHANGED <<heapVars, codecVars, deltaVars, seqVars, parVars>>

NextHeap ==
    \/ HeapCompress \/ HeapDecompress
    \/ HeapComputeDelta \/ HeapApplyDelta
    \/ HeapEncodeSeq \/ HeapKeySlice \/ HeapKeyFrame
    \/ HeapDeltaSlices \/ HeapDeltaValues \/ HeapDeltaApply
    \/ HeapDecodeFinish

SpecHeap == InitHeap /\ [][NextHeap]_vars

----------------------------------------------------------------------------
(* Properties *)

\* the mode byte of a container
ModeOf(c) == c[6]
ModePacked == 0
ModeRLE == 1
ModeRaw == 255

\* sizes of the two candidates, counted from the input alone
DistinctCount(d) == Cardinality({d[i] : i \in 1..Len(d)})
WidthFor(n) == CHOOSE w \in 1..8 : Pow2(w) >= n /\ (w = 1 \/ Pow2(w - 1) < n)
RunCount(d) == Cardinality({i \in 1..Len(d) : i = 1 \/ d[i] # d[i - 1]})
PackedSize(d) ==
    12 + DistinctCount(d) + CeilDiv(Len(d) * WidthFor(DistinctCount(d)), 8)
RleSize(d) == 12 + DistinctCount(d) + 4 + 3 * RunCount(d)

\* C1: decompress(compress(B)) returns B, for every buffer B: the empty
\* buffer, a single byte, one repeated value, all 256 values included.
C1_RoundTrip == pc = "done" => restored = Ok(data)

\* C1 witness: the buffer of all 256 values has gone through both calls
C1_Witness ==
    /\ pc = "done"
    /\ data = Ascending256
    /\ restored = Ok(Ascending256)

\* C2: decompressFrameSequence(compressFrameSequence(F, k)) = F for every
\* list F of frames of equal or differing lengths and every k >= 1.
C2_SeqRoundTrip ==
    pc \in {"seqDone", "seqFailed"} => (pc = "seqDone" /\ dFrames = frames)

\* C3: the container returned by compress(B) is at most len(B) + 10 bytes
\* long, for every buffer B, the empty one included.
C3_SizeBound == pc = "decompress" => Len(container) <= Len(data) + 10

\* C4: applyDelta(prev, computeDelta(prev, cur), len(cur)) = cur for every
\* prev and cur, whichever is longer.
C4_DeltaRoundTrip == pc = "deltaDone" => applied = cur

\* C4 witness: a current buffer longer than a non-empty reference, with a
\* changed byte in the common part, has been rebuilt
C4_Witness ==
    /\ pc = "deltaDone"
    /\ Len(prev) > 0
    /\ Len(cur) > Len(prev)
    /\ cur[1] # prev[1]
    /\ applied = cur

\* C5 as stated: for AAAAABBBBBCCCCC compress selects mode 1, the
\* container is shorter than 15 bytes, and decompress restores the input.
C5_AsStated ==
    (pc = "done" /\ data = Scenario15) =>
        /\ ModeOf(container) = ModeRLE
        /\ Len(container) < 15
        /\ restored = Ok(Scenario15)

\* C5 amended: for AAAAABBBBBCCCCC compress selects mode 0 (the packed
\* candidate, 19 bytes, is smaller than the run-length candidate, 28
\* bytes), the container is 19 bytes long, and decompress restores the input.
C5_Amended ==
    (pc = "done" /\ data = Scenario15) =>
        /\ ModeOf(container) = ModePacked
        /\ Len(container) = 19
        /\ PackedSize(Scenario15) = 19
        /\ RleSize(Scenario15) = 28
        /\ restored = Ok(Scenario15)

\* C5 witness: the 15-byte scenario has been compressed and decompressed
C5_Witness ==
    /\ pc = "done"
    /\ data = Scenario15
    /\ Len(container) = 19

\* C6 as stated: for the 256 ascending byte values compress emits a mode 0
\* container with index width 8, and decompress returns the input.
C6_AsStated ==
    (pc = "done" /\ data = Ascending256) =>
        /\ ModeOf(container) = ModePacked
        /\ BitsPerIndexOf(GetU16(container, 10)) = 8
        /\ restored = Ok(Ascending256)

\* C6 amended: for the 256 ascending byte values the packed candidate has
\* index width 8 and 524 bytes, which is not less than 256 + 10, so compress
\* emits a 266-byte Raw (mode 255) container; decompress returns the input.
C6_Amended ==
    (pc = "done" /\ data = Ascending256) =>
        /\ ModeOf(container) = ModeRaw
        /\ Len(container) = 266
        /\ WidthFor(DistinctCount(Ascending256)) = 8
        /\ PackedSize(Ascending256) = 524
        /\ restored = Ok(Ascending256)

\* C6 witness: the 256-byte scenario has been compressed to a Raw container
C6_Witness ==
    /\ pc = "done"
    /\ data = Ascending256
    /\ ModeOf(container) = ModeRaw

\* C7: for a non-empty buffer B compress emits a Raw container exactly when
\* the smaller candidate is at least len(B) + 10 bytes; the Raw container is
\* the 10-byte header followed by B, len(B) + 10 bytes in all.
C7_RawFallback ==
    (pc = "decompress" /\ Len(data) > 0) =>
        /\ (ModeOf(container) = ModeRaw)
             <=> (Min(PackedSize(data), RleSize(data)) >= Len(data) + 10)
        /\ (ModeOf(container) = ModeRaw) =>
             /\ container = <<80, 87, 68, 67, 2, 255>> \o U32LE(Len(data))
                            \o data
             /\ Len(container) = Len(data) + 10

\* C7 witness: 5 pairwise distinct bytes have become a 15-byte Raw container
C7_Witness ==
    /\ pc = "decompress"
    /\ data = <<0, 65, 66, 67, 255>>
    /\ ModeOf(container) = ModeRaw
    /\ Len(container) = 15

\* C8: a version 1 container carrying B's symbol table (each entry followed
\* by 4 frequency bytes), the index width and B's run records decodes to the
\* same buffer as decompress(compress(B)), whatever the frequency bytes are.
C8_LegacySameBuffer ==
    pc = "doneV1" =>
        /\ restored.error = "none"
        /\ restored = decompress(compress(data))

\* C8 witness: a version 1 container with two table entries whose frequency
\* bytes are all 255 has been decoded
C8_Witness ==
    /\ pc = "doneV1"
    /\ data = <<65, 66, 66>>
    /\ container[5] = 1
    /\ SubSeq(container, 14, 17) = <<255, 255, 255, 255>>
    /\ restored = Ok(data)

\* number of delta positions of cur against ref, counted from the buffers
ChangedCount(ref, c) ==
    Cardinality({p \in 1..Len(c) : p > Len(ref) \/ ref[p] # c[p]})

\* C9: in compressFrameSequence, at an index i with i mod k # 0, a frame
\* with more than half of its positions in the delta becomes a Key unit and
\* the new reference; with exactly half or fewer it becomes a Delta unit and
\* the reference stays.
C9_SceneChange ==
    [][(pc = "encode" /\ eI < Len(frames) /\ eI % kfi # 0) =>
         LET frame == frames[eI + 1]
             changed == ChangedCount(referenceFrame.buf, frame)
         IN  IF 2 * changed > Len(frame)
             THEN /\ Len(chunks') = Len(chunks) + 2
                  /\ chunks'[Len(chunks) + 1][1] = TagKey
                  /\ referenceFrame' = FrameRef(frame)
             ELSE /\ Len(chunks') = Len(chunks) + 3
                  /\ chunks'[Len(chunks) + 1][1] = TagDelta
                  /\ referenceFrame' = referenceFrame]_vars

\* C9 witness: the unit just emitted at an index that is not a multiple of k
\* is a Key unit, for a frame that differs from the old reference in 2 of 3
\* positions, and it is the new reference
C9_Witness ==
    /\ pc = "encode"
    /\ eI = 2
    /\ kfi = 3
    /\ Len(frames[2]) = 3
    /\ ChangedCount(frames[1], frames[2]) = 2
    /\ Len(chunks) = 5
    /\ chunks[4][1] = TagKey
    /\ referenceFrame = FrameRef(frames[2])

\* C10: decompressFrameSequence fails when it meets a Delta unit before any
\* Key unit: the call throws, returns no frame list and pushes no frame for
\* that unit.
C10_DeltaWithoutReference ==
    [][(/\ pc = "decode"
        /\ dI < FrameCountOf(stream)
        /\ At(stream, dOffset) = TagDelta
        /\ dRef.null) =>
         (pc' = "seqFailed" /\ dError' # "none" /\ dFrames' = dFrames)]_vars

\* C10 witness: a well-formed Delta unit met with no reference frame has
\* made the call throw
C10_Witness ==
    /\ pc = "seqFailed"
    /\ dError = "TypeError"
    /\ At(stream, dOffset) = TagDelta
    /\ dRef.null
    /\ dFrames = <<>>

----------------------------------------------------------------------------
(* Fields of a SymbolRLE or version 1 container, read from its bytes *)

HasMagic(c) == Len(c) >= 4 /\ SubSeq(c, 1, 4) = <<80, 87, 68, 67>>
IsLegacy(c) == c[5] = 1
StoredLength(c) == IF IsLegacy(c) THEN GetU32(c, 5) ELSE GetU32(c, 6)
StoredCount(c) == IF IsLegacy(c) THEN GetU16(c, 9) ELSE GetU16(c, 10)
StoredTable(c) ==
    [i \in 1..StoredCount(c) |->
        IF IsLegacy(c) THEN c[12 + 5 * (i - 1) + 1] ELSE c[12 + i]]
RunsOffset(c) ==
    IF IsLegacy(c) THEN 12 + 5 * StoredCount(c) ELSE 12 + StoredCount(c)
StoredRunCount(c) == GetU32(c, RunsOffset(c))
StoredRuns(c) ==
    [k \in 1..StoredRunCount(c) |->
        [index |-> c[RunsOffset(c) + 4 + 3 * (k - 1) + 1],
         count |-> GetU16(c, RunsOffset(c) + 4 + 3 * (k - 1) + 1)]]

\* c is a SymbolRLE or version 1 container with a non-empty table of at most
\* 256 entries, all the run records it announces, and no index past the table
WellFormedRle(c) ==
    /\ Len(c) >= 12
    /\ HasMagic(c)
    /\ \/ c[5] = 2 /\ c[6] = 1
       \/ c[5] = 1 /\ c[12] \in 1..8
    /\ StoredCount(c) \in 1..256
    /\ Len(c) >= RunsOffset(c) + 4
    /\ Len(c) >= RunsOffset(c) + 4 + 3 * StoredRunCount(c)
    /\ \A k \in 1..StoredRunCount(c) : StoredRuns(c)[k].index < StoredCount(c)

\* sum of the lengths of runs[lo..hi]
RECURSIVE RunSumOver(_, _, _)
RunSumOver(runs, lo, hi) ==
    IF lo > hi THEN 0
    ELSE IF lo = hi THEN runs[lo].count
    ELSE LET mid == (lo + hi) \div 2
             lower == RunSumOver(runs, lo, mid)
         IN  IF Done(lower) THEN lower + RunSumOver(runs, mid + 1, hi)
             ELSE lower

RunSum(runs) == RunSumOver(runs, 1, Len(runs))

\* the bytes runs[lo..hi] stand for, in order
RECURSIVE ExpansionOver(_, _, _, _)
ExpansionOver(table, runs, lo, hi) ==
    IF lo > hi THEN <<>>
    ELSE IF lo = hi
    THEN <<>> \o [k \in 1..runs[lo].count |-> table[runs[lo].index + 1]]
    ELSE LET mid == (lo + hi) \div 2
             lower == ExpansionOver(table, runs, lo, mid)
         IN  IF Done(lower)
             THEN lower \o ExpansionOver(table, runs, mid + 1, hi)
             ELSE lower

Expansion(table, runs) == ExpansionOver(table, runs, 1, Len(runs))

\* C11: decompress on a SymbolRLE or version 1 container whose run lengths
\* sum to less than original_length fails with an error and returns no
\* buffer.
C11_RunsExhausted ==
    (/\ pc = "decoded"
     /\ WellFormedRle(container)
     /\ RunSum(StoredRuns(container)) < StoredLength(container)) =>
        restored.error # "none"

\* C12: decompress returns a buffer only if the input begins with the magic
\* PWDC, its version byte is 1 or 2 and, for version 2 with a non-zero
\* original_length, its mode byte is 0, 1 or 255; on bad magic, unsupported
\* version or unknown mode it throws and returns nothing.
C12_Validation ==
    pc = "decoded" =>
        LET c == container
            badMagic   == ~HasMagic(c)
            badVersion == Len(c) >= 5 /\ c[5] \notin {1, 2}
            badMode    == /\ Len(c) >= 10 /\ c[5] = 2 /\ GetU32(c, 6) # 0
                          /\ c[6] \notin {0, 1, 255}
        IN  /\ restored.error = "none" =>
                (Len(c) >= 10 /\ ~badMagic /\ ~badVersion /\ ~badMode)
            /\ (badMagic \/ badVersion \/ badMode) =>
                (restored.error # "none" /\ restored.buf = <<>>)

\* C12 witness: a 15-byte container with the right magic, version 2, a
\* non-zero original_length and mode byte 2 has been refused
C12_Witness ==
    /\ pc = "decoded"
    /\ container = <<80, 87, 68, 67, 2, 2, 1, 0, 0, 0, 1, 0, 65, 0, 0>>
    /\ restored.error = "unknown mode"

\* C13: compress of the empty buffer emits a container whose original_length
\* field is 0; decompress of a version 2 container with the right magic and
\* original_length 0 returns the empty buffer, whatever the mode byte is and
\* whatever follows the header, nothing included.
C13_EmptyBuffer ==
    /\ (pc = "decompress" /\ data = <<>>) =>
           (Len(container) >= 10 /\ GetU32(container, 6) = 0)
    /\ (/\ pc = "decoded"
        /\ Len(container) >= 10
        /\ HasMagic(container)
        /\ container[5] = 2
        /\ GetU32(container, 6) = 0) => restored = Ok(<<>>)

\* C13 witness: a container with original_length 0, the unknown mode byte 254
\* and one stray byte after the header has been decoded to the empty buffer
C13_Witness ==
    /\ pc = "decoded"
    /\ container = <<80, 87, 68, 67, 2, 254, 0, 0, 0, 0, 1>>
    /\ restored = Ok(<<>>)

\* C19: on a SymbolRLE container whose run lengths sum to more than
\* original_length, decompress returns, without error, exactly original_length
\* bytes: the first original_length bytes of the expanded runs.
C19_SurplusRuns ==
    (/\ pc = "decoded"
     /\ WellFormedRle(container)
     /\ ~IsLegacy(container)
     /\ RunSum(StoredRuns(container)) > StoredLength(container)) =>
        /\ restored.error = "none"
        /\ Len(restored.buf) = StoredLength(container)
        /\ restored.buf =
             SubSeq(Expansion(StoredTable(container), StoredRuns(container)),
                    1, StoredLength(container))

\* C19 witness: runs of 2 and 2 decoded into 3 bytes, the second run cut
\* short and the bytes after the records left unread
C19_Witness ==
    /\ pc = "decoded"
    /\ container = RleContainer(3, <<65, 66>>,
                                <<[index |-> 1, count |-> 2],
                                  [index |-> 0, count |-> 2]>>, <<9, 9>>)
    /\ restored = Ok(<<66, 66, 65>>)

\* C14: two runs of compress on the same buffer return byte-identical
\* containers, in whatever order the second run's histogram hands out the
\* byte values.
C14_Deterministic == pc = "again" => again = container

\* C14 witness: a buffer whose values first occur in descending order has
\* been compressed twice into the same packed container, its table ascending
C14_Witness ==
    /\ pc = "again"
    /\ data = <<255, 0, 255, 0, 255, 0>>
    /\ ModeOf(container) = ModePacked
    /\ SubSeq(container, 13, 14) = <<0, 255>>
    /\ again = container

\* C16: for a non-empty buffer that does not fall back to Raw, compress
\* returns the SymbolPacked candidate when it is no longer than the SymbolRLE
\* candidate, and the SymbolRLE candidate only when that one is strictly
\* shorter; on equal sizes the mode byte is 0.
C16_TieFavorsPacked ==
    (pc = "decompress" /\ Len(data) > 0 /\ ModeOf(container) # ModeRaw) =>
        LET uniqueBytes  == UniqueBytesOf(data)
            bitsPerIndex == BitsPerIndexOf(Len(uniqueBytes))
        IN  /\ PackedSize(data) <= RleSize(data) =>
                /\ ModeOf(container) = ModePacked
                /\ Len(container) = PackedSize(data)
                /\ container = encodeMode0(data, uniqueBytes, bitsPerIndex)
            /\ RleSize(data) < PackedSize(data) =>
                /\ ModeOf(container) = ModeRLE
                /\ Len(container) = RleSize(data)
                /\ container = encodeMode1(data, uniqueBytes, bitsPerIndex)

\* C16 witness: 80 bytes in two runs of 40, for which both candidates take
\* 24 bytes, have been stored packed
C16_Witness ==
    /\ pc = "decompress"
    /\ data = TieScenario
    /\ PackedSize(data) = 24
    /\ RleSize(data) = 24
    /\ ModeOf(container) = ModePacked
    /\ Len(container) = 24

\* bit k (0-based, least significant first) of the bytes of c from start
PayloadBit(c, start, k) == (c[start + (k \div 8) + 1] \div Pow2(k % 8)) % 2

\* the w-bit number stored at bits k .. k + w - 1 of the payload
RECURSIVE PayloadIndex(_, _, _, _)
PayloadIndex(c, start, k, w) ==
    IF w = 0 THEN 0
    ELSE PayloadBit(c, start, k) + 2 * PayloadIndex(c, start, k + 1, w - 1)

SymbolTableOf(c) == SubSeq(c, 13, 12 + GetU16(c, 10))

\* the table of container c lists the distinct values of d once each, in
\* strictly ascending order, and the payload's indices are positions in it
TableAscending(c, d) ==
    /\ CanRead(c, 10, 2)
    /\ LET N     == GetU16(c, 10)
           table == SymbolTableOf(c)
           w     == WidthFor(N)
       IN  /\ N \in 1..256
           /\ N = DistinctCount(d)
           /\ Len(c) >= 12 + N
           /\ {table[i] : i \in 1..N} = {d[p] : p \in 1..Len(d)}
           /\ \A i \in 1..(N - 1) : table[i] < table[i + 1]
           /\ IF ModeOf(c) = ModePacked
              THEN \A p \in 1..Len(d) :
                     table[PayloadIndex(c, 12 + N, (p - 1) * w, w) + 1] = d[p]
              ELSE Expansion(table, StoredRuns(c)) = d

\* C20 as stated: in every container with mode byte 0 or 1 that compress
\* returns, the stored table lists exactly the distinct values of the input
\* in strictly ascending order, N is their number (1 <= N <= 256), and a
\* value's symbol index is its position in the table.
C20_AsStated ==
    (pc = "decompress" /\ ModeOf(container) \in {ModePacked, ModeRLE}) =>
        TableAscending(container, data)

\* C20 amended: the same for every non-empty input; the container returned
\* for the empty buffer has mode byte 0 and no uniqueCount or table at all.
C20_Amended ==
    /\ (pc = "decompress" /\ Len(data) > 0
        /\ ModeOf(container) \in {ModePacked, ModeRLE}) =>
           TableAscending(container, data)
    /\ (pc = "decompress" /\ Len(data) = 0) =>
           (ModeOf(container) = ModePacked /\ Len(container) = 11)

\* C20 witness: a buffer whose values first occur in descending order has
\* been stored as SymbolRLE with the ascending table 0, 255
C20_Witness ==
    /\ pc = "decompress"
    /\ data = Stretch(<<255, 0>>, RunStretch)
    /\ ModeOf(container) = ModeRLE
    /\ SymbolTableOf(container) = <<0, 255>>
    /\ StoredRuns(container) = <<[index |-> 1, count |-> RunStretch],
                                 [index |-> 0, count |-> RunStretch]>>

\* C17: in the SymbolRLE candidate of a non-empty buffer B every run record
\* has a length in 1..65535, the lengths sum to len(B), the runs expanded in
\* order give B's symbol-index sequence, and two adjacent records carry the
\* same index only when the first has length 65535.
C17_RunRecords ==
    pc = "decodeMode1" =>
        LET N     == GetU16(container, 10)
            table == SymbolTableOf(container)
            runs  == StoredRuns(container)
        IN  /\ Len(container) = 16 + N + 3 * Len(runs)
            /\ \A k \in 1..Len(runs) : runs[k].count \in 1..65535
            /\ RunSum(runs) = Len(data)
            /\ Expansion(AscendingTo(N), runs)
                 = [p \in 1..Len(data) |->
                      CHOOSE i \in 0..(N - 1) : table[i + 1] = data[p]]
            /\ \A k \in 1..(Len(runs) - 1) :
                 runs[k].index = runs[k + 1].index => runs[k].count = 65535

\* C17 witness: a run of 65536 equal values has become exactly two records,
\* 65535 then 1
C17_Witness ==
    /\ pc = "decodeMode1"
    /\ Len(data) = 65536
    /\ DistinctCount(data) = 1
    /\ StoredRuns(container) = <<[index |-> 0, count |-> 65535],
                                 [index |-> 0, count |-> 1]>>

\* C18 as stated: a run record of a SymbolRLE container is 2 + 2 bytes when
\* N > 255 and 1 + 2 bytes otherwise, and the decoder reads it that way.
C18_AsStated ==
    /\ pc \in {"decodeMode1", "doneMode1"} =>
          LET N == GetU16(container, 10)
              w == IF N > 255 THEN 2 ELSE 1
          IN  Len(container) = 16 + N + (w + 2) * GetU32(container, 12 + N)
    /\ pc = "doneMode1" => restored = Ok(data)

\* C18 amended: for every table size N in 1..256 a run record is 1 + 2
\* bytes, the symbol index in one byte and the run length in two, and the
\* decoder reads it that way; the 2-byte index is never used.
C18_Amended ==
    /\ pc \in {"decodeMode1", "doneMode1"} =>
          LET N == GetU16(container, 10)
          IN  /\ N = DistinctCount(data)
              /\ Len(container) = 16 + N + 3 * GetU32(container, 12 + N)
              /\ Expansion(SymbolTableOf(container), StoredRuns(container))
                   = data
    /\ pc = "doneMode1" => restored = Ok(data)

\* C18 witness: the SymbolRLE container of the 256 byte values, 256 records
\* of 3 bytes, has been decoded back
C18_Witness ==
    /\ pc = "doneMode1"
    /\ data = Ascending256
    /\ GetU16(container, 10) = 256
    /\ Len(container) = 1040
    /\ restored = Ok(Ascending256)

\* the locals call c started from
StartOf(c) ==
    IF c.op = "compressFrameSequence" THEN EncoderCall(c.frames, c.kfi)
    ELSE DecoderCall(c.data)

\* C15: with the steps of two frame-sequence calls interleaved in any order,
\* each call ends as it does when run alone, and a step of one call changes
\* neither the other call's locals nor the other call's referenceFrame.
C15_Independent ==
    /\ [](pc = "calls" =>
            \A id \in CallIds :
                calls[id].pc \in Finished =>
                    calls[id] = RunAlone(StartOf(calls[id]), NullFrame))
    /\ [][pc = "calls" =>
            \A a \in CallIds :
                calls'[a] # calls[a] =>
                    \A b \in CallIds \ {a} :
                        /\ calls'[b] = calls[b]
                        /\ refSlots'[b] = refSlots[b]]_vars

\* C15 witness: an encoder call that emitted a Delta unit against its own
\* reference and a decoder call that applied one against another reference
\* have both returned
C15_Witness ==
    /\ pc = "calls"
    /\ calls[1].op = "compressFrameSequence"
    /\ calls[1].pc = "returned"
    /\ calls[1].frames = << <<7, 7>>, <<7, 0>> >>
    /\ calls[1].kfi = 2
    /\ calls[1].result[18 + Len(compress(<<7, 7>>))] = TagDelta
    /\ refSlots[1] = FrameRef(<<7, 7>>)
    /\ calls[2].op = "decompressFrameSequence"
    /\ calls[2].pc = "returned"
    /\ calls[2].out = << <<0, 0>>, <<0, 0>> >>
    /\ calls[2].data[18 + Len(compress(<<0, 0>>))] = TagDelta
    /\ refSlots[2] = FrameRef(<<0, 0>>)

----------------------------------------------------------------------------
(* Index width and bit layout of the SymbolPacked candidate *)

\* the width decompressMode0 computes, from the table it read
DecoderWidth(c) == BitsPerIndexOf(Len(StoredTable(c)))
\* the width compress computes and hands to encodeMode0
EncoderWidth(d) == BitsPerIndexOf(Len(UniqueBytesOf(d)))

\* C21: for every table size N in 1..256 encoder and decoder compute the
\* same index width, the least w >= 1 with N <= 2^w: it lies in 1..8, is 1
\* for N = 1 and N = 2 and 8 for N = 256, every index 0..N-1 fits in w bits,
\* and the decoder's width depends on the stored table size alone: buffers
\* of different lengths with the same table decode with the same width, and
\* each decodes to the buffer it was built from.
C21_IndexWidth ==
    /\ pc \in {"decodeMode0", "doneMode0"} =>
          LET N == StoredCount(container)
              w == DecoderWidth(container)
          IN  /\ N = DistinctCount(data)
              /\ N \in 1..256
              /\ w = EncoderWidth(data)
              /\ w \in 1..8
              /\ \A e \in 1..8 : (N <= Pow2(e)) <=> (w <= e)
              /\ (N <= 2) => w = 1
              /\ (N = 256) => w = 8
              /\ \A i \in 0..(N - 1) : i < Pow2(w)
              /\ w = BitsPerIndexOf(N)
    /\ pc = "doneMode0" => restored = Ok(data)

\* C21 witness: 129 values, each twice, have been packed 8 bits wide and
\* decoded again
C21_Witness ==
    /\ pc = "doneMode0"
    /\ data = Repeat(AscendingTo(129), 2)
    /\ StoredLength(container) = 258
    /\ StoredCount(container) = 129
    /\ DecoderWidth(container) = 8
    /\ restored = Ok(data)

\* byte offsets of the output that iteration i of the packing loop assigns
PackWrites(i, w, packedStart) ==
    LET bitPos     == i * w
        byteOffset == packedStart + (bitPos \div 8)
        bitOffset  == bitPos % 8
    IN  {byteOffset}
        \cup (IF bitOffset + w > 8 THEN {byteOffset + 1} ELSE {})
        \cup (IF bitOffset + w > 16 THEN {byteOffset + 2} ELSE {})

\* C22: the SymbolPacked candidate of a buffer of length L with N distinct
\* values and width w is 12 + N + ceil(L*w/8) bytes long; symbol i is the
\* w-bit number at bits i*w .. (i+1)*w - 1 of the payload, least significant
\* bit first; every write of the packing loop lands inside the payload; and
\* the bits of the last payload byte past L*w are zero.
C22_PackedLayout ==
    pc = "decodeMode0" =>
        LET L     == Len(data)
            N     == DistinctCount(data)
            w     == WidthFor(N)
            start == 12 + N
            table == SymbolTableOf(container)
        IN  /\ Len(container) = 12 + N + CeilDiv(L * w, 8)
            /\ SubSeq(container, 1, 12)
                   = MAGIC \o <<VERSION, 0>> \o U32LE(L) \o U16LE(N)
            /\ \A i \in 0..(L - 1) :
                   /\ PayloadIndex(container, start, i * w, w) < N
                   /\ table[PayloadIndex(container, start, i * w, w) + 1]
                         = data[i + 1]
                   /\ PackWrites(i, w, start) \subseteq
                         start..(Len(container) - 1)
            /\ \A k \in (L * w)..(8 * CeilDiv(L * w, 8) - 1) :
                   PayloadBit(container, start, k) = 0

\* C22 witness: three values packed two bits wide, five symbols in ten
\* bits, the last six bits of the second payload byte left zero
C22_Witness ==
    /\ pc = "decodeMode0"
    /\ data = <<67, 65, 66>>
    /\ container = MAGIC \o <<VERSION, 0>> \o U32LE(3) \o U16LE(3)
                   \o <<65, 66, 67>> \o <<18>>

----------------------------------------------------------------------------
(* Units of a frame-sequence container, read from its bytes *)

\* offset of the unit that follows the unit at offset
NextUnit(s, offset) ==
    IF s[offset + 1] = TagKey
    THEN offset + 9 + GetU32(s, offset + 1)
    ELSE offset + 13 + GetU32(s, offset + 5) + GetU32(s, offset + 9)

\* offsets of the first n units, the first one at offset
RECURSIVE UnitOffsets(_, _, _)
UnitOffsets(s, offset, n) ==
    IF n = 0 THEN <<>>
    ELSE <<offset>> \o UnitOffsets(s, NextUnit(s, offset), n - 1)

\* tag bytes of the first n units of s
UnitTagsOf(s, n) ==
    LET offsets == UnitOffsets(s, 8, n)
    IN  [i \in 1..n |-> s[offsets[i] + 1]]

\* tag bytes of the units of a container the encoder returned
UnitTags(s) == UnitTagsOf(s, GetU32(s, 0))

\* the bytes of unit i (0-based) of s
UnitBytes(s, i) ==
    LET offsets == UnitOffsets(s, 8, i + 1)
    IN  SubSeq(s, offsets[i + 1] + 1, NextUnit(s, offsets[i + 1]))

\* C23: in every container compressFrameSequence(F, k) returns for k >= 1
\* and non-empty F there is one unit per frame, unit i is tagged Key
\* whenever i mod k = 0, unit 0 is Key, every Delta unit comes after a Key
\* unit, and this holds whatever scene-change Keys were emitted in between.
C23_KeySchedule ==
    (pc = "decodeStart" /\ Len(frames) > 0) =>
        LET tags == UnitTags(stream)
        IN  /\ Len(tags) = Len(frames)
            /\ \A i \in 0..(Len(frames) - 1) :
                   /\ tags[i + 1] \in {TagKey, TagDelta}
                   /\ (i % kfi = 0) => tags[i + 1] = TagKey
                   /\ (tags[i + 1] = TagDelta) =>
                         \E j \in 0..(i - 1) : tags[j + 1] = TagKey
            /\ tags[1] = TagKey

\* C23 witness: with k = 2 a scene change made unit 1 a Key; unit 2, equal
\* to frame 1, is the scheduled Key all the same
C23_Witness ==
    /\ pc = "decodeStart"
    /\ kfi = 2
    /\ frames = << <<0, 0>>, <<7, 7>>, <<7, 7>> >>
    /\ UnitTags(stream) = <<TagKey, TagKey, TagKey>>

\* index (0-based) of the most recent Key unit before unit i
LastKey(tags, i) ==
    CHOOSE j \in 0..(i - 1) :
        /\ tags[j + 1] = TagKey
        /\ \A m \in (j + 1)..(i - 1) : tags[m + 1] # TagKey

\* the frame of the most recent Key unit before unit i; none before unit 0
KeyFrameBefore(tags, i) ==
    IF i = 0 THEN NullFrame ELSE FrameRef(frames[LastKey(tags, i) + 1])

\* C24: at every unit index compressFrameSequence and
\* decompressFrameSequence hold the same reference frame, the frame of the
\* most recent Key unit (scheduled or scene change) before that index: a
\* Delta unit leaves it unchanged, and every Delta unit holds the delta of
\* its frame against that frame and is applied to that frame, not to the
\* frame just before it.
C24_SameReference ==
    /\ pc = "encode" =>
          referenceFrame =
            KeyFrameBefore(UnitTagsOf(FlattenChunks(chunks), eI), eI)
    /\ pc = "decode" =>
          LET tags == UnitTags(stream)
          IN  /\ dRef = KeyFrameBefore(tags, dI)
              /\ Len(dFrames) = dI
              /\ \A i \in 0..(dI - 1) :
                    tags[i + 1] = TagDelta =>
                      LET ref == frames[LastKey(tags, i) + 1]
                          dl  == computeDelta(ref, frames[i + 1])
                      IN  /\ UnitBytes(stream, i)
                               = FlattenChunks(DeltaChunks(dl))
                          /\ dFrames[i + 1] = applyDelta(ref, dl, Len(ref))

\* C24 witness: the decoder has applied two Delta units in a row; the second
\* lists position 0, which differs from the Key frame and not from the frame
\* just before, and both sides still hold the Key frame
C24_Witness ==
    /\ pc = "decode"
    /\ dI = 3
    /\ frames = << <<0, 0, 0>>, <<7, 0, 0>>, <<7, 0, 0>> >>
    /\ UnitTags(stream) = <<TagKey, TagDelta, TagDelta>>
    /\ referenceFrame = FrameRef(<<0, 0, 0>>)
    /\ dRef = FrameRef(<<0, 0, 0>>)
    /\ dFrames = frames

----------------------------------------------------------------------------
(* Storage of the buffers the calls take and return *)

\* the buffers behind the given views are pairwise different
OwnStorage(views) ==
    \A i \in 1..Len(views) : \A j \in 1..Len(views) :
        i # j => views[i].buf # views[j].buf

\* C25: compress, computeDelta, applyDelta and compressFrameSequence leave
\* every buffer that existed before the call with the contents it had;
\* decompress returns a buffer on storage of its own, not the container's;
\* and in decompressFrameSequence every unit, Delta units included, yields a
\* frame on newly allocated storage, so the reference frame and the frames
\* already in the output list keep their contents.
C25_FrameEffect ==
    /\ [][\A id \in 1..Len(heap) : heap'[id] = heap[id]]_vars
    /\ [](pc = "hCodecDone" =>
            /\ OwnStorage(<<locals.data, locals.compressed,
                            locals.restored>>)
            /\ Bytes(heap, locals.restored) = Bytes(heap, locals.data))
    /\ [](pc = "hDeltaDone" =>
            /\ OwnStorage(<<locals.previous, locals.current,
                            locals.positions, locals.values,
                            locals.result>>)
            /\ Bytes(heap, locals.result)
                 = applyDelta(Bytes(heap, locals.previous),
                              computeDelta(Bytes(heap, locals.previous),
                                           Bytes(heap, locals.current)),
                              Len(Bytes(heap, locals.current))))
    /\ [](pc \in {"hDecode", "hKeyFrame", "hDeltaValues", "hDeltaApply",
                   "hSeqDone"} =>
            /\ OwnStorage(locals.input \o <<locals.data>> \o locals.frames)
            /\ locals.referenceFrame.null
               \/ \E i \in 1..Len(locals.frames) :
                     locals.frames[i] = locals.referenceFrame.view)
    /\ [][(pc \in {"hDecode", "hKeyFrame", "hDeltaValues",
                   "hDeltaApply"}) =>
            \A i \in 1..Len(locals.frames) :
                /\ locals'.frames[i] = locals.frames[i]
                /\ Bytes(heap', locals.frames[i])
                     = Bytes(heap, locals.frames[i])]_vars

\* C25 witness: the decoder has applied a Delta unit to the reference frame
\* 7 7; the new frame 7 0 is on its own storage and the Key frame, still the
\* reference, holds 7 7
C25_Witness ==
    /\ pc = "hSeqDone"
    /\ Len(locals.frames) = 2
    /\ UnitTags(Bytes(heap, locals.data)) = <<TagKey, TagDelta>>
    /\ locals.referenceFrame = RefTo(locals.frames[1])
    /\ locals.frames[1].buf # locals.frames[2].buf
    /\ Bytes(heap, locals.frames[1]) = <<7, 7>>
    /\ Bytes(heap, locals.frames[2]) = <<7, 0>>

----------------------------------------------------------------------------
(* Contents of a delta and of the Delta unit packed from it *)

\* C26: computeDelta(prev, cur) returns positions that are strictly
\* ascending and below len(cur), one value per position with
\* values[j] = cur[positions[j]], and lists p exactly when p >= len(prev) or
\* prev[p] # cur[p]; the Delta unit packed from it stores the number of
\* positions as change_count and 4 * change_count as positions_byte_length,
\* followed by that many bytes of positions.
C26_DeltaContents ==
    /\ pc \in {"applyDelta", "packed"} =>
          LET ps == delta.positions
              vs == delta.values
          IN  /\ Len(vs) = Len(ps)
              /\ \A j \in 1..(Len(ps) - 1) : ps[j] < ps[j + 1]
              /\ \A j \in 1..Len(ps) :
                    /\ ps[j] \in 0..(Len(cur) - 1)
                    /\ vs[j] = cur[ps[j] + 1]
              /\ \A p \in 0..(Len(cur) - 1) :
                    (\E j \in 1..Len(ps) : ps[j] = p)
                      <=> (p >= Len(prev) \/ prev[p + 1] # cur[p + 1])
    /\ pc = "packed" =>
          LET header == chunks[1]
          IN  /\ Len(chunks) = 3
              /\ Len(header) = 13
              /\ header[1] = TagDelta
              /\ GetU32(header, 1) = Len(delta.positions)
              /\ GetU32(header, 5) = 4 * GetU32(header, 1)
              /\ Len(chunks[2]) = GetU32(header, 5)
              /\ PositionsOf(chunks[2], GetU32(header, 1)) = delta.positions
              /\ GetU32(header, 9) = Len(chunks[3])
              /\ chunks[3] = compress(delta.values)

\* C26 witness: cur extends prev by one byte equal to the byte before it:
\* position 2 alone is listed and packed as change_count 1 and 4 bytes
C26_Witness ==
    /\ pc = "packed"
    /\ prev = <<7, 0>>
    /\ cur = <<7, 0, 0>>
    /\ delta = [positions |-> <<2>>, values |-> <<0>>]
    /\ chunks = << <<TagDelta>> \o U32LE(1) \o U32LE(4)
                     \o U32LE(Len(compress(<<0>>))),
                   <<2, 0, 0, 0>>, compress(<<0>>) >>

----------------------------------------------------------------------------
(* Frames returned for a container against the count in its header *)

\* C27: whenever decompressFrameSequence returns normally on a non-empty
\* container the returned list holds exactly frame_count frames, one per
\* unit: no unit with a tag byte other than 'K' and 'D' is passed over.
C27_FrameCount ==
    (pc = "seqDone" /\ Len(stream) > 0) =>
        Len(dFrames) = FrameCountOf(stream)

----------------------------------------------------------------------------
(* Length of the buffer decompress returns *)

\* C28: whenever decompress returns normally on a version 2 container the
\* returned buffer has exactly original_length bytes, in every mode, also
\* for a Raw container with fewer bytes than that after its header.
C28_OutputLength ==
    (/\ pc = "decoded"
     /\ restored.error = "none"
     /\ Len(container) >= 10
     /\ container[5] = VERSION) =>
        Len(restored.buf) = GetU32(container, 6)

----------------------------------------------------------------------------
(* Output bytes of a SymbolPacked or SymbolRLE container and its table *)

\* C29: whenever decompress returns normally on a mode 0 or mode 1 container
\* every byte of the output is an entry of the stored symbol table, also
\* when a packed index or a run record's index is not below the table size.
C29_OutputInTable ==
    (/\ pc = "decoded"
     /\ restored.error = "none"
     /\ Len(container) >= 12
     /\ container[5] = VERSION
     /\ container[6] \in {ModePacked, ModeRLE}
     /\ GetU32(container, 6) > 0) =>
        \A p \in 1..Len(restored.buf) :
            \E i \in 1..GetU16(container, 10) :
                /\ 12 + i <= Len(container)
                /\ restored.buf[p] = container[12 + i]

----------------------------------------------------------------------------
(* Frame lists whose frames all have one length *)

SameLength(fs) == \A i \in 1..Len(fs) : Len(fs[i]) = Len(fs[1])

\* C30: for every list F of frames of one length (no frame at all and
\* frames of length 0 included) and every keyframeInterval k >= 1,
\* decompressFrameSequence(compressFrameSequence(F, k)) returns F; the empty
\* list is encoded as a container of zero bytes, which decodes to the empty
\* list.
C30_SameLengthRoundTrip ==
    /\ (pc \in {"seqDone", "seqFailed"} /\ SameLength(frames)) =>
          (pc = "seqDone" /\ dFrames = frames)
    /\ (pc \in {"decodeStart", "decode", "seqDone", "seqFailed"}
        /\ Len(frames) = 0) => stream = <<>>
    /\ (pc \in {"decodeStart", "decode", "seqDone", "seqFailed"}
        /\ Len(frames) > 0) =>
          (Len(stream) >= 8 /\ FrameCountOf(stream) = Len(frames))

\* C30 witness: three frames of length 3 have come back from a container of
\* one Key unit and two Delta units
C30_Witness ==
    /\ pc = "seqDone"
    /\ kfi = 3
    /\ frames = << <<7, 7, 0>>, <<7, 7, 7>>, <<0, 7, 0>> >>
    /\ UnitTags(stream) = <<TagKey, TagDelta, TagDelta>>
    /\ dFrames = frames

====
